---- MODULE Spec2Model ----
(***************************************************************************)
(* Model of the document-extraction backend: the /procesar handler         *)
(* (app.py), DocumentProcessor.procesar_archivo (document_processor.py),   *)
(* PDFConverter.convertir_a_pdf (pdf_converter.py) and the legacy readers   *)
(* (legacy_reader.py).                                                     *)
(* The ai_service variants kept in test_backend.py are modelled too:      *)
(* call_gemini, extract_clean_json, fix_json, normalize_question,          *)
(* shuffle_alternatives, build_prompt and generar_examen.  A last          *)
(* specification interleaves two /procesar requests in one process.        *)
(*                                                                         *)
(* External capabilities (PDF libraries, OCR, LibreOffice, unoconv, the    *)
(* file system) are opaque: each call's outcome is an input chosen from a  *)
(* small set.  Text is a sequence of characters, so that trimming and      *)
(* length are computed, not assumed.                                       *)
(***************************************************************************)
EXTENDS Integers, Sequences, FiniteSets, TLC

VARIABLES
    libreoffice_path,   \* PDFConverter.libreoffice_path: TRUE iff a binary was detected
    unoconv_path,       \* PDFConverter.unoconv_path: TRUE iff a binary was detected
    pdf_lib,            \* the PDF library _procesar_pdf_completo can import
    pc,                 \* position of the /procesar handler
    request,            \* the multipart request being handled
    extension,          \* app.py local `extension`
    resultado,          \* app.py local `resultado` (what procesar_archivo gave)
    upload_pdf,         \* what reading the uploaded file as a PDF gives
    response,           \* the HTTP response of the handler
    tmp,                \* temp files created by this request that still exist
    nfiles,             \* number of temp files created by this request
    calls,              \* strategies attempted so far, in order, with outcome
    emergency,          \* TRUE iff the handler attempted the emergency conversion
    leg_pc,             \* position of the legacy reader being run
    leg_fn,             \* which legacy reader runs
    leg_slides,         \* leer_ppt_antiguo: number of slides of the presentation
    leg_i,              \* leer_ppt_antiguo: index of the next slide
    leg_texto,          \* leer_ppt_antiguo: texto_total
    leg_tmp,            \* legacy readers: temp images that still exist
    leg_result,         \* what the legacy reader gave its caller
    g_pc,               \* position of the call_gemini invocation
    g_variant,          \* which ai_service variant's call_gemini runs
    g_key,              \* GEMINI_API_KEY: "unset", "empty" or "set"
    g_retries,          \* call_gemini's `retries` argument
    g_intento,          \* the loop variable of call_gemini
    g_posts,            \* requests.post calls made by this invocation
    g_sleeps,           \* time.sleep calls made by this invocation
    g_trace,            \* what each finished attempt met, in order
    g_result,           \* what call_gemini gave its caller
    j_pc,               \* "in" before, "out" after a text function was applied
    j_variant,          \* which ai_service variant's functions run
    j_in,               \* the text given to the function
    j_op,               \* which function was applied
    j_texto,            \* the text it returned
    j_parsed,           \* what json.loads made of the cleaned response
    e_pc,               \* position of the generar_examen invocation
    e_variant,          \* which ai_service variant's generar_examen runs
    e_n,                \* len(bloques)
    e_i,                \* the block generar_examen is at, from 1
    e_log,              \* what each block taken so far met and gave
    e_todo,             \* the questions gathered, each as its block's number
    e_result,           \* how generar_examen ended: "list" or "raise"
    p_pc,               \* position in the loop over the parsed array (lines 476-483)
    p_k,                \* elements of the array taken so far
    p_raw,              \* the element q of the current turn
    p_qn,               \* what normalize_question(q) gave
    p_q,                \* what shuffle_alternatives(qn) gave
    p_final,            \* generar_preguntas_por_bloque's list `final`
    p_todo,             \* the list generar_examen returned
    b_pc,               \* "idle" before, "done" after build_prompt was called
    b_variant,          \* which ai_service variant's build_prompt runs
    b_args,             \* the four arguments of the call
    b_prompt,           \* the prompt it returned
    c_turno,            \* which of two concurrent requests the handler variables hold
    c_otro,             \* the locals and files of the other request
    c_in,               \* what the running request's strategies gave it
    c_env0,             \* the shared objects as __init__ left them
    s_pc,               \* "idle", or which of the splitter and the planner ran
    s_texto,            \* the text given to the block splitter
    s_bloques,          \* the blocks it returned
    s_n,                \* the block count given to the planner
    s_meta,             \* the per-block target the planner returned
    k_pc,               \* "idle" before, "done" after convertir_a_pdf was called
    k_ext,              \* its `extension` argument
    k_c,                \* what each conversion method does with the file
    k_res,              \* what it returned: a path, or None
    k_intentos,         \* the conversion methods it called, in order
    k_tmp               \* the temp files that exist when it returns

vars == <<libreoffice_path, unoconv_path, pdf_lib, pc, request, extension,
          resultado, upload_pdf, response, tmp, nfiles, calls, emergency,
          leg_pc, leg_fn, leg_slides, leg_i, leg_texto, leg_tmp, leg_result,
          g_pc, g_variant, g_key, g_retries, g_intento, g_posts, g_sleeps,
          g_trace, g_result,
          j_pc, j_variant, j_in, j_op, j_texto, j_parsed,
          e_pc, e_variant, e_n, e_i, e_log, e_todo, e_result,
          p_pc, p_k, p_raw, p_qn, p_q, p_final, p_todo,
          b_pc, b_variant, b_args, b_prompt,
          c_turno, c_otro, c_in, c_env0,
          s_pc, s_texto, s_bloques, s_n, s_meta,
          k_pc, k_ext, k_c, k_res, k_intentos, k_tmp>>

envVars == <<libreoffice_path, unoconv_path, pdf_lib>>
reqVars == <<pc, request, extension, resultado, upload_pdf, response, tmp,
             nfiles, calls, emergency>>
legVars == <<leg_pc, leg_fn, leg_slides, leg_i, leg_texto, leg_tmp, leg_result>>
gemVars == <<g_pc, g_variant, g_key, g_retries, g_intento, g_posts, g_sleeps,
             g_trace, g_result>>
jsonVars == <<j_pc, j_variant, j_in, j_op, j_texto, j_parsed>>
exVars == <<e_pc, e_variant, e_n, e_i, e_log, e_todo, e_result>>
pregVars == <<p_pc, p_k, p_raw, p_qn, p_q, p_final, p_todo>>
promptVars == <<b_pc, b_variant, b_args, b_prompt>>
concVars == <<c_turno, c_otro, c_in, c_env0>>
planVars == <<s_pc, s_texto, s_bloques, s_n, s_meta>>
convVars == <<k_pc, k_ext, k_c, k_res, k_intentos, k_tmp>>
aiVars == <<gemVars, jsonVars, exVars>>

-----------------------------------------------------------------------------
(* Text *)

SP == " "
NL == "\n"

IsSpace(c) == c \in {SP, NL}

RECURSIVE LStrip(_)
LStrip(t) == IF t # <<>> /\ IsSpace(Head(t)) THEN LStrip(Tail(t)) ELSE t

RECURSIVE RStrip(_)
RStrip(t) ==
    IF t # <<>> /\ IsSpace(t[Len(t)]) THEN RStrip(SubSeq(t, 1, Len(t) - 1)) ELSE t

\* str.strip()
Strip(t) == RStrip(LStrip(t))

\* The texts a reader may give: empty, blank, bare and padded.
Textos == {<<>>, <<SP>>, <<"a">>, <<SP, "a">>}

\* Outcome of one call: a returned text or a raised exception.
Ret(t) == [k |-> "ret", t |-> t, exc |-> "-"]
Raise(e) == [k |-> "raise", t |-> <<>>, exc |-> e]
NoResult == [k |-> "none", t |-> <<>>, exc |-> "-"]

TextOuts == {Ret(t) : t \in Textos} \cup {Raise("Exception")}
LibOuts == TextOuts \cup {Raise("ImportError")}

-----------------------------------------------------------------------------
(* Extensions *)

\* str.lower() on the extensions the model uses
LowerExt(e) == CASE e = "PDF" -> "pdf" [] e = "PDF " -> "pdf " [] OTHER -> e

\* str.strip() on the extensions the model uses
StripExt(e) == CASE e = "pdf " -> "pdf" [] e = " " -> "" [] OTHER -> e

FormatosImagen ==
    {"jpg", "jpeg", "png", "gif", "bmp", "tiff", "tif", "heic", "heif", "webp"}
FormatosDirectos == {"pdf", "txt", "csv"}
FormatosTexto == {"txt", "csv"}
FormatosLectorDirecto == {"docx", "xlsx", "xls", "pptx"}

-----------------------------------------------------------------------------
(* Warnings (the f-string arguments are dropped) *)

W_detectada == "Extension detectada automaticamente"
W_no_detectada == "No se pudo detectar extension, intentando como PDF"
W_imagen_convertida == "Imagen convertida a PDF"
W_no_imagen == "No se pudo procesar imagen"
W_convertido_tras_error == "Archivo convertido a PDF despues de error"
W_convertido == "Archivo convertido a PDF"
W_no_convertir == "No se pudo convertir a PDF, intentando extraccion directa"
W_pdf_generico == "Archivo procesado como PDF generico"
W_no_procesar == "No se pudo procesar archivo"
W_tras_error == "Procesado como PDF despues de error"
W_error == "Error procesando archivo"
W_fallback_fallo == "Fallback tambien fallo"
W_pdfplumber == "Usando pdfplumber como alternativa a PyMuPDF"
W_pypdf2 == "Usando PyPDF2 como ultimo recurso"
W_no_instalado == "libreria de lectura directa no esta instalada"
W_directa_fallo == "Extraccion directa fallo"
W_emergencia == "Conversion de emergencia aplicada"
W_recuperado == "Recuperado despues de error"
W_sin_texto == "No se pudo extraer texto del documento"
W_error_procesamiento == "Error de procesamiento"

-----------------------------------------------------------------------------
(* File system and trace: h = [tmp, n, calls, conv] is threaded through a
   request *)

\* tempfile.NamedTemporaryFile(delete=False): a fresh path that now exists
NewTemp(h) == [h EXCEPT !.n = @ + 1, !.tmp = @ \cup {h.n + 1}]
NewPath(h) == h.n + 1

\* os.unlink(p); `ok` is whether the file system lets it succeed
Unlink(h, p, ok) == IF ok THEN [h EXCEPT !.tmp = @ \ {p}] ELSE h

\* os.path.exists(p)
Exists(h, p) == p \in h.tmp

\* convertir_a_pdf calls its conversion method m
LlamarMetodo(h, m) == [h EXCEPT !.conv = Append(@, m)]

\* One strategy finished with outcome `out`
Log(h, st, out) == [h EXCEPT !.calls = Append(@, [st |-> st, out |-> out])]

-----------------------------------------------------------------------------
(* pdf_converter.py *)

NoPdf == 0   \* convertir_a_pdf returned None

\* What a conversion attempt gives: a path (ok) or a failure, and the
\* file system it leaves.
Made(h) == [ok |-> TRUE, path |-> NewPath(h), h |-> NewTemp(h)]
Failed(h) == [ok |-> FALSE, path |-> NoPdf, h |-> h]

\* _convertir_texto_a_pdf / _convertir_imagen_a_pdf: the output file is
\* created before the PDF is written, so a late failure leaves it behind.
ConvertirNativo(out, h) ==
    CASE out = "ok" -> Made(h)
      [] out = "raise_leak" -> Failed(NewTemp(h))
      [] OTHER -> Failed(h)

\* _convertir_con_libreoffice: the PDF is moved to a temp file on success;
\* the work directory is removed in `finally`.
ConvertirConLibreoffice(out, h) == IF out = "ok" THEN Made(h) ELSE Failed(h)

\* _convertir_con_unoconv: the output file is created first; `except
\* Exception` removes it, `except subprocess.TimeoutExpired` does not.
ConvertirConUnoconv(out, ul, h) ==
    CASE out = "ok" -> Made(h)
      [] out = "timeout" -> Failed(NewTemp(h))
      [] OTHER -> Failed(Unlink(NewTemp(h), NewPath(h), ul))

\* convertir_a_pdf, lines 96-108 and 125-135: reportlab / Pillow, for
\* txt, csv and images, unless an earlier method already gave a PDF (r.ok)
PasoNativo(e, c, r) ==
    IF r.ok \/ e \notin (FormatosTexto \cup FormatosImagen) THEN r
    ELSE ConvertirNativo(c.native, LlamarMetodo(r.h, "native"))

\* convertir_a_pdf, lines 111-115
PasoLibreoffice(c, r) ==
    IF r.ok \/ ~libreoffice_path THEN r
    ELSE ConvertirConLibreoffice(c.lo, LlamarMetodo(r.h, "libreoffice"))

\* unoconv run whether or not an earlier method gave a PDF
PasoUnoconvSiempre(c, ul, r) ==
    IF ~unoconv_path THEN r
    ELSE ConvertirConUnoconv(c.uno, ul, LlamarMetodo(r.h, "unoconv"))

\* convertir_a_pdf, lines 118-122
PasoUnoconv(c, ul, r) ==
    IF r.ok \/ ~unoconv_path THEN r
    ELSE ConvertirConUnoconv(c.uno, ul, LlamarMetodo(r.h, "unoconv"))

\* PDFConverter.convertir_a_pdf: [ok, path, h]; path = NoPdf is None
ConvertirAPdf(file_path, ext, c, ul, h) ==
    IF StripExt(LowerExt(ext)) = "pdf"
    THEN [ok |-> TRUE, path |-> file_path, h |-> h]
    ELSE PasoNativo(StripExt(LowerExt(ext)), c,
           PasoUnoconv(c, ul,
             PasoLibreoffice(c,
               PasoNativo(StripExt(LowerExt(ext)), c, Failed(h)))))

-----------------------------------------------------------------------------
(* document_processor.py *)

Dict(texto, caracteres, paginas, method, warnings) ==
    [texto |-> texto, caracteres |-> caracteres, paginas |-> paginas,
     method |-> method, warnings |-> warnings]

NoDict == Dict(<<>>, 0, 0, "-", <<>>)

\* A call of procesar_archivo or of one of its parts ends by returning a
\* dict or by raising; w is the `warnings` list as the call left it.
Returned(d, h) == [k |-> "ret", d |-> d, exc |-> "-", w |-> d.warnings, h |-> h]
Raised(exc, w, h) == [k |-> "raise", d |-> NoDict, exc |-> exc, w |-> w, h |-> h]

\* _procesar_pdf_completo, lines 255 and 275: the fallback libraries append
\* a warning to the caller's list
AvisoLibreria(w) ==
    CASE pdf_lib = "pdfplumber" -> Append(w, W_pdfplumber)
      [] pdf_lib = "PyPDF2" -> Append(w, W_pypdf2)
      [] OTHER -> w

\* ProcesarPdfCompleto with the page count stored under "caracteres"
ProcesarPdfCompletoPaginas(out, w) ==
    IF out.k = "ret"
    THEN [k |-> "ret", exc |-> "-",
          d |-> Dict(out.t, 1, 1, "direct_pdf", AvisoLibreria(w))]
    ELSE [k |-> "raise", exc |-> out.exc, d |-> NoDict]

\* _procesar_pdf_completo: `out` is what the importable library makes of
\* the file
ProcesarPdfCompleto(out, w) ==
    IF out.k = "ret"
    THEN [k |-> "ret", exc |-> "-",
          d |-> Dict(out.t, Len(out.t), 1, "direct_pdf", AvisoLibreria(w))]
    ELSE [k |-> "raise", exc |-> out.exc, d |-> NoDict]

\* _procesar_txt
ProcesarTxt(o) == o.txt

\* _procesar_csv: any failure falls back to _procesar_txt
ProcesarCsv(o) == IF o.csv.k = "ret" THEN o.csv ELSE ProcesarTxt(o)

\* _procesar_imagen, lines 347-351: the image converted (as 'png') is read
\* as a PDF, and that PDF is not removed
ProcesarImagenPdf(cv, px) ==
    IF cv.path # NoPdf
    THEN [out |-> IF px.k = "ret" THEN Ret(px.d.texto) ELSE Raise(px.exc),
          h |-> cv.h]
    ELSE [out |-> Raise("ImportError"), h |-> cv.h]

\* _procesar_imagen: OCR, or the conversion above without pytesseract/Pillow
ProcesarImagen(file_path, o, h) ==
    IF o.ocr.k = "raise" /\ o.ocr.exc = "ImportError"
    THEN ProcesarImagenPdf(ConvertirAPdf(file_path, "png", o.conv, o.unlink_ok, h),
                           ProcesarPdfCompleto(o.pdf_conv, <<>>))
    ELSE [out |-> o.ocr, h |-> h]

\* _intentar_extraccion_directa: Optional[str]; appends to `warnings`
IntentarExtraccionDirecta(ext, w, o) ==
    IF ext \in FormatosLectorDirecto
    THEN CASE o.direct.k = "ret" -> [out |-> o.direct, w |-> w]
           [] o.direct.exc = "ImportError" ->
                [out |-> NoResult, w |-> Append(w, W_no_instalado)]
           [] OTHER -> [out |-> NoResult, w |-> Append(w, W_directa_fallo)]
    ELSE [out |-> NoResult, w |-> w]

\* lines 71, 129, 149: `pdf_path and os.path.exists(pdf_path)`
Convertido(cv) == cv.path # NoPdf /\ Exists(cv.h, cv.path)

\* A cleanup that removes the file given to procesar_archivo
LimpiarPdfOriginal(file_path, cv, ul) ==
    IF Exists(cv.h, cv.path) THEN Unlink(cv.h, file_path, ul) ELSE cv.h

\* lines 77-81, 134-138, 156-160: remove the converted PDF
LimpiarPdf(file_path, cv, ul) ==
    IF cv.path # file_path /\ Exists(cv.h, cv.path)
    THEN Unlink(cv.h, cv.path, ul) ELSE cv.h

\* lines 72-83, 130-140, 151-162: the converted PDF was read; its result is
\* returned under `method`, whatever its text
DevolverConvertido(file_path, cv, px, o, method, aviso) ==
    Returned([px.d EXCEPT !.method = method, !.warnings = Append(@, aviso)],
             Log(LimpiarPdf(file_path, cv, o.unlink_ok), method, Ret(px.d.texto)))

\* lines 88-106: OCR on the image itself
RamaImagenOcr(w, oc) ==
    IF oc.out.k = "ret"
    THEN Returned(Dict(oc.out.t, Len(oc.out.t), 1, "image_ocr", w),
                  Log(oc.h, "image_ocr", oc.out))
    ELSE Returned(Dict(<<>>, 0, 1, "image_failed", Append(w, W_no_imagen)),
                  Log(oc.h, "image_ocr", oc.out))

\* RamaImagenPdf without the `return resultado` of line 83: the OCR runs
\* although the converted PDF was read
RamaImagenPdfSinReturn(file_path, w, o, cv, px) ==
    RamaImagenOcr(w, ProcesarImagen(file_path, o,
        Log(cv.h, "image_to_pdf",
            IF px.k = "ret" THEN Ret(px.d.texto) ELSE Raise(px.exc))))

\* lines 71-85: the image was converted and the PDF read (px)
RamaImagenPdf(file_path, w, o, cv, px) ==
    IF px.k = "ret"
    THEN DevolverConvertido(file_path, cv, px, o, "image_to_pdf",
                            W_imagen_convertida)
    ELSE RamaImagenOcr(w, ProcesarImagen(file_path, o,
                              Log(cv.h, "image_to_pdf", Raise(px.exc))))

\* lines 70-71: the image went through convertir_a_pdf (cv)
RamaImagenConv(file_path, w, o, cv) ==
    IF Convertido(cv)
    THEN RamaImagenPdf(file_path, w, o, cv, ProcesarPdfCompleto(o.pdf_conv, w))
    ELSE RamaImagenOcr(w, ProcesarImagen(file_path, o,
                              Log(cv.h, "image_to_pdf", NoResult)))

\* procesar_archivo, lines 66-106: image formats
RamaImagen(file_path, ext, w, o, h) ==
    RamaImagenConv(file_path, w, o,
                   ConvertirAPdf(file_path, ext, o.conv, o.unlink_ok, h))

\* lines 111-112: a PDF is read as it is
RamaPdf(w, h, px) ==
    IF px.k = "ret"
    THEN Returned(px.d, Log(h, "direct_pdf", Ret(px.d.texto)))
    ELSE Raised(px.exc, w, Log(h, "direct_pdf", Raise(px.exc)))

\* lines 128-141: the reader raised (tx) and the file went through
\* convertir_a_pdf (cv); px is the converted PDF read
RamaTextoConv(file_path, ext, w, o, tx, cv, px) ==
    IF Convertido(cv) /\ px.k = "ret"
    THEN DevolverConvertido(file_path, cv, px, o, ext \o "_to_pdf",
                            W_convertido_tras_error)
    ELSE IF Convertido(cv)
    THEN Raised(px.exc, w, Log(cv.h, ext \o "_to_pdf", Raise(px.exc)))
    ELSE Raised(tx.exc, w, Log(cv.h, ext \o "_to_pdf", NoResult))

\* lines 116-127: txt and csv are read directly (tx)
RamaTexto(file_path, ext, w, o, h, tx) ==
    IF tx.k = "ret"
    THEN Returned(Dict(tx.t, Len(tx.t), 1, ext, w), Log(h, ext, tx))
    ELSE RamaTextoConv(file_path, ext, w, o, tx,
             ConvertirAPdf(file_path, ext, o.conv, o.unlink_ok, Log(h, ext, tx)),
             ProcesarPdfCompleto(o.pdf_conv, w))

\* procesar_archivo, lines 109-141: pdf, txt, csv
RamaDirecta(file_path, ext, w, o, h) ==
    IF ext = "pdf" THEN RamaPdf(w, h, ProcesarPdfCompleto(o.pdf_file, w))
    ELSE RamaTexto(file_path, ext, w, o, h,
                   IF ext = "txt" THEN ProcesarTxt(o) ELSE ProcesarCsv(o))

\* lines 177-193: last resort, the file read as a PDF (fx)
RamaConversionFallback(dx, h, fx) ==
    IF fx.k = "ret"
    THEN Returned([fx.d EXCEPT !.method = "fallback_pdf",
                               !.warnings = Append(@, W_pdf_generico)],
                  Log(h, "fallback_pdf", Ret(fx.d.texto)))
    ELSE Returned(Dict(<<>>, 0, 0, "failed", Append(dx.w, W_no_procesar)),
                  Log(h, "fallback_pdf", Raise(fx.exc)))

\* lines 166-176: the format's own reader was tried (dx); `if texto:`
RamaConversionDirecta(ext, o, h, dx) ==
    IF dx.out.k = "ret" /\ dx.out.t # <<>>
    THEN Returned(Dict(dx.out.t, Len(dx.out.t), 1, "direct_" \o ext, dx.w),
                  Log(h, "direct_" \o ext, dx.out))
    ELSE RamaConversionFallback(dx, Log(h, "direct_" \o ext, dx.out),
                                ProcesarPdfCompleto(o.pdf_file, dx.w))

\* lines 149-166: the file went through convertir_a_pdf (cv); px is the
\* converted PDF read
RamaConversionConv(file_path, ext, w, o, cv, px) ==
    IF Convertido(cv) /\ px.k = "ret"
    THEN DevolverConvertido(file_path, cv, px, o, "pdf_conversion", W_convertido)
    ELSE IF Convertido(cv)
    THEN Raised(px.exc, w, Log(cv.h, "pdf_conversion", Raise(px.exc)))
    ELSE RamaConversionDirecta(ext, o, Log(cv.h, "pdf_conversion", NoResult),
             IntentarExtraccionDirecta(ext, Append(w, W_no_convertir), o))

\* procesar_archivo, lines 143-193: every other format
RamaConversion(file_path, ext, w, o, h) ==
    RamaConversionConv(file_path, ext, w, o,
                       ConvertirAPdf(file_path, ext, o.conv, o.unlink_ok, h),
                       ProcesarPdfCompleto(o.pdf_conv, w))

\* ExceptExternoPdf without the inner try/except of lines 198-213: a
\* failure of the last read leaves procesar_archivo as an exception
ExceptExternoPdfSinTry(r, fx) ==
    IF fx.k = "ret"
    THEN Returned([fx.d EXCEPT !.method = "fallback_pdf",
                               !.warnings = Append(@, W_tras_error)],
                  Log(r.h, "fallback_pdf", Ret(fx.d.texto)))
    ELSE Raised(fx.exc, r.w, Log(r.h, "fallback_pdf", Raise(fx.exc)))

\* lines 197-213: inside the outer `except`, the file read as a PDF (fx)
ExceptExternoPdf(r, fx) ==
    IF fx.k = "ret"
    THEN Returned([fx.d EXCEPT !.method = "fallback_pdf",
                               !.warnings = Append(@, W_tras_error)],
                  Log(r.h, "fallback_pdf", Ret(fx.d.texto)))
    ELSE Returned(Dict(<<>>, 0, 0, "failed",
                       r.w \o <<W_error, W_fallback_fallo>>),
                  Log(r.h, "fallback_pdf", Raise(fx.exc)))

\* procesar_archivo, lines 195-213: the outer `except Exception`, entered
\* when the body of the `try` raised (r)
ExceptExterno(r, o) ==
    IF r.k = "raise" THEN ExceptExternoPdf(r, ProcesarPdfCompleto(o.pdf_file, r.w))
    ELSE r

\* procesar_archivo, lines 52-62: the extension to work with and the
\* warnings it starts with; o.detect is _detectar_extension_por_contenido
ExtensionEfectiva(ext, o) ==
    IF StripExt(LowerExt(ext)) # ""
    THEN [ext |-> StripExt(LowerExt(ext)), w |-> <<>>]
    ELSE IF o.detect # "" THEN [ext |-> o.detect, w |-> <<W_detectada>>]
    ELSE [ext |-> "pdf", w |-> <<W_no_detectada>>]

\* procesar_archivo, lines 64-193: the body of the `try`
CuerpoTry(file_path, ee, o, h) ==
    IF ee.ext \in FormatosImagen THEN RamaImagen(file_path, ee.ext, ee.w, o, h)
    ELSE IF ee.ext \in FormatosDirectos
    THEN RamaDirecta(file_path, ee.ext, ee.w, o, h)
    ELSE RamaConversion(file_path, ee.ext, ee.w, o, h)

\* DocumentProcessor.procesar_archivo
ProcesarArchivo(file_path, ext, o, h) ==
    ExceptExterno(CuerpoTry(file_path, ExtensionEfectiva(ext, o), o, h), o)

-----------------------------------------------------------------------------
(* Inputs of one request *)

\* What the conversion tools may do with a file of extension e.  A tool
\* that was not detected is never run, so its outcome is not an input.
ConvOuts(e) ==
    [native : IF e \in FormatosTexto \cup FormatosImagen
              THEN {"ok", "raise", "raise_leak"} ELSE {"-"},
     lo : IF libreoffice_path THEN {"ok", "fail"} ELSE {"-"},
     uno : IF unoconv_path THEN {"ok", "fail", "timeout"} ELSE {"-"}]

NoConv == [native |-> "-", lo |-> "-", uno |-> "-"]
Unused == Raise("Exception")

\* What _detectar_extension_por_contenido may return ("" is None)
Detectadas == {"", "pdf", "png", "docx", "zip"}

\* The inputs procesar_archivo can consume for a file whose effective
\* extension is e; the readers it cannot reach for e are not inputs.
OraculosPara(e, d) ==
    [detect : {d},
     conv : IF e = "pdf" THEN {NoConv} ELSE ConvOuts(e),
     pdf_file : IF e \in FormatosImagen THEN {Unused} ELSE TextOuts,
     pdf_conv : IF e = "pdf" THEN {Unused} ELSE TextOuts,
     txt : IF e \in FormatosTexto THEN TextOuts ELSE {Unused},
     csv : IF e = "csv" THEN TextOuts ELSE {Unused},
     ocr : IF e \in FormatosImagen THEN LibOuts ELSE {Unused},
     direct : IF e \in FormatosLectorDirecto THEN LibOuts ELSE {Unused},
     unlink_ok : IF e = "pdf" THEN {TRUE} ELSE BOOLEAN]

Oraculos(ext) ==
    LET e == StripExt(LowerExt(ext))
    IN  IF e # "" THEN OraculosPara(e, "")
        ELSE UNION {OraculosPara(IF d # "" THEN d ELSE "pdf", d) : d \in Detectadas}

\* The inputs of a procesar_archivo(path, 'pdf') call
OraculoPdf(out) ==
    [detect |-> "", conv |-> NoConv, pdf_file |-> out, pdf_conv |-> Unused,
     txt |-> Unused, csv |-> Unused, ocr |-> Unused, direct |-> Unused,
     unlink_ok |-> TRUE]

\* Uploaded file names: stem, whether a '.' follows, and what follows it
Nombres ==
    {[stem |-> "", dot |-> FALSE, ext |-> ""],
     [stem |-> "informe", dot |-> FALSE, ext |-> ""]}
    \cup {[stem |-> "a", dot |-> TRUE, ext |-> e] :
            e \in {"", "pdf", "PDF", "pdf ", "txt", "csv", "png", "docx", "doc"}}

NoName == [stem |-> "", dot |-> FALSE, ext |-> ""]

Solicitudes ==
    {[has_file |-> FALSE, filename |-> NoName]}
    \cup {[has_file |-> TRUE, filename |-> f] : f \in Nombres}

NoRequest == [has_file |-> FALSE, filename |-> NoName]

-----------------------------------------------------------------------------
(* app.py *)

TempPath == 1   \* the upload's temp file is the first file a request creates

Respuesta(http, status, d, message) ==
    [http |-> http, status |-> status, texto |-> d.texto,
     caracteres |-> d.caracteres, paginas |-> d.paginas, method |-> d.method,
     warnings |-> d.warnings, message |-> message]

NoResponse == Respuesta(0, "-", NoDict, "-")
Exito(d) == Respuesta(200, "success", d, "-")
ErrorHttp(code, message) == Respuesta(code, "error", NoDict, message)

\* Malformada without the test of lines 48-54 on the file's name
MalformadaSinNombre(req) == ~req.has_file

\* lines 37-54: no 'file' part, or a file whose name is ''
Malformada(req) ==
    \/ ~req.has_file
    \/ (req.filename.stem = "" /\ ~req.filename.dot)

\* lines 61-66: the text after the last '.', lower-cased.  secure_filename
\* adds no '.', so the second test never finds one the first did not.
ExtensionDe(f) == IF f.dot THEN LowerExt(f.ext) ELSE ""

\* lines 90, 114, 157, 195: `texto and texto.strip()`
HayTexto(t) == t # <<>> /\ Strip(t) # <<>>

\* The test without its comparison with 'pdf'
ConvieneEmergenciaSinPdf(ext) == ext # ""

\* lines 106, 149: `extension and extension.lower() != 'pdf'`
ConvieneEmergencia(ext) == ext # "" /\ LowerExt(ext) # "pdf"

\* lines 111-120 and 154-163: the converted PDF went through
\* procesar_archivo (rp); `found` says whether its text is returned
EmergenciaLeida(cv, eo, rp) ==
    IF rp.k = "ret" /\ HayTexto(rp.d.texto)
    THEN [found |-> TRUE, d |-> rp.d, tried |-> TRUE,
          h |-> IF cv.path # TempPath /\ Exists(rp.h, cv.path)
                THEN Unlink(rp.h, cv.path, eo.unlink_ok) ELSE rp.h]
    ELSE [found |-> FALSE, d |-> NoDict, tried |-> TRUE, h |-> rp.h]

\* lines 109-110 and 152-153: the upload went through convertir_a_pdf (cv)
EmergenciaConv(cv, eo) ==
    IF Convertido(cv)
    THEN EmergenciaLeida(cv, eo,
             ProcesarArchivo(cv.path, "pdf",
                 OraculoPdf(IF cv.path = TempPath THEN upload_pdf ELSE eo.pdf),
                 Log(cv.h, "emergency_pdf_conversion", NoResult)))
    ELSE [found |-> FALSE, d |-> NoDict, tried |-> TRUE,
          h |-> Log(cv.h, "emergency_pdf_conversion", NoResult)]

\* lines 106-131 and 149-174: the emergency conversion, when it applies
ConversionDeEmergencia(ext, eo, h) ==
    IF ConvieneEmergencia(ext)
    THEN EmergenciaConv(ConvertirAPdf(TempPath, ext, eo.conv, eo.unlink_ok, h), eo)
    ELSE [found |-> FALSE, d |-> NoDict, tried |-> FALSE, h |-> h]

\* lines 122-129 and 133-142: no text from procesar_archivo (d); em is the
\* emergency conversion
SinTexto(d, em) ==
    IF em.found
    THEN [resp |-> Exito([em.d EXCEPT !.method = "emergency_pdf_conversion",
                                      !.warnings = Append(@, W_emergencia)]),
          h |-> em.h, em |-> em.tried]
    ELSE [resp |-> Exito([d EXCEPT !.warnings = Append(@, W_sin_texto)]),
          h |-> em.h, em |-> em.tried]

\* lines 86-142: procesar_archivo returned `d`
TrasProcesar(d, ext, eo, h) ==
    IF HayTexto(d.texto) THEN [resp |-> Exito(d), h |-> h, em |-> FALSE]
    ELSE SinTexto(d, ConversionDeEmergencia(ext, eo, h))

\* lines 165-184: inside `except ValueError`; em is the emergency conversion
ValueErrorRespuesta(em) ==
    IF em.found
    THEN [resp |-> Exito([em.d EXCEPT !.method = "emergency_pdf_conversion",
                                      !.warnings = Append(@, W_recuperado)]),
          h |-> em.h, em |-> em.tried]
    ELSE [resp |-> Exito(Dict(<<>>, 0, 0, "failed", <<W_error_procesamiento>>)),
          h |-> em.h, em |-> em.tried]

\* lines 144-184: `except ValueError`
TrasValueError(ext, eo, h) ==
    ValueErrorRespuesta(ConversionDeEmergencia(ext, eo, h))

\* lines 193-212: inside `except Exception`; rp is the upload read as a PDF
ExceptionRespuesta(rp) ==
    IF rp.k = "ret" /\ HayTexto(rp.d.texto)
    THEN [resp |-> Exito([rp.d EXCEPT !.method = "fallback_pdf",
                                      !.warnings = Append(@, W_tras_error)]),
          h |-> rp.h, em |-> FALSE]
    ELSE [resp |-> ErrorHttp(500, "Error al procesar el documento"),
          h |-> rp.h, em |-> FALSE]

\* lines 185-212: `except Exception`
TrasException(h) ==
    ExceptionRespuesta(ProcesarArchivo(TempPath, "pdf", OraculoPdf(upload_pdf), h))

\* lines 213-219: `finally`
Finally(r, ok) ==
    IF Exists(r.h, TempPath) THEN [r EXCEPT !.h = Unlink(@, TempPath, ok)] ELSE r

\* lines 78-219: the handler from the return (or raise) of procesar_archivo
Resto(res, ext, eo, h) ==
    Finally(CASE res.k = "ret" -> TrasProcesar(res.d, ext, eo, h)
              [] res.exc = "ValueError" -> TrasValueError(ext, eo, h)
              [] OTHER -> TrasException(h),
            eo.unlink_ok)

\* The inputs of the rest of the handler: those of the emergency
\* conversion when it is attempted, and whether the upload can be removed.
EmergOraculos ==
    IF resultado.k = "ret" /\ ~HayTexto(resultado.d.texto)
       /\ ConvieneEmergencia(extension)
    THEN [conv : ConvOuts(StripExt(LowerExt(extension))), pdf : TextOuts,
          unlink_ok : BOOLEAN]
    ELSE [conv : {NoConv}, pdf : {Unused}, unlink_ok : BOOLEAN]

NoResultado == [k |-> "-", d |-> NoDict, exc |-> "-"]

\* The request's file system and trace, as one value
Hilo == [tmp |-> tmp, n |-> nfiles, calls |-> calls, conv |-> <<>>]

\* lines 73-76: the temp file is created, then the upload is saved into it;
\* a failure to save leaves through the outermost `except` (lines 221-228)
Guardar(req, save_ok) ==
    /\ extension' = ExtensionDe(req.filename)
    /\ tmp' = {TempPath}
    /\ nfiles' = 1
    /\ IF save_ok
       THEN pc' = "saved" /\ response' = NoResponse
       ELSE pc' = "done" /\ response' = ErrorHttp(500, "Error interno del servidor")

\* lines 35-76: validate the request, create the temp file, save the upload
Recibir ==
    /\ pc = "idle"
    /\ \E req \in Solicitudes, save_ok \in BOOLEAN :
         /\ request' = req
         /\ IF Malformada(req)
            THEN /\ response' = ErrorHttp(400, "malformed request")
                 /\ pc' = "done"
                 /\ UNCHANGED <<extension, tmp, nfiles>>
            ELSE Guardar(req, save_ok)
    /\ UNCHANGED <<resultado, upload_pdf, calls, emergency>>
    /\ UNCHANGED <<envVars, planVars, convVars, pregVars, promptVars, concVars, legVars, aiVars>>

ProcesarEfecto(o, r) ==
    /\ resultado' = [k |-> r.k, d |-> r.d, exc |-> r.exc]
    /\ upload_pdf' = o.pdf_file
    /\ tmp' = r.h.tmp
    /\ nfiles' = r.h.n
    /\ calls' = r.h.calls

\* line 83: resultado = processor.procesar_archivo(temp_path, extension)
Procesar ==
    /\ pc = "saved"
    /\ \E o \in Oraculos(extension) :
         ProcesarEfecto(o, ProcesarArchivo(TempPath, extension, o, Hilo))
    /\ pc' = "processed"
    /\ UNCHANGED <<request, extension, response, emergency>>
    /\ UNCHANGED <<envVars, planVars, convVars, pregVars, promptVars, concVars, legVars, aiVars>>

ResponderEfecto(r) ==
    /\ response' = r.resp
    /\ emergency' = r.em
    /\ tmp' = r.h.tmp
    /\ nfiles' = r.h.n
    /\ calls' = r.h.calls

\* lines 86-219: build the response and remove the upload
Responder ==
    /\ pc = "processed"
    /\ \E eo \in EmergOraculos : ResponderEfecto(Resto(resultado, extension, eo, Hilo))
    /\ pc' = "done"
    /\ UNCHANGED <<request, extension, resultado, upload_pdf>>
    /\ UNCHANGED <<envVars, planVars, convVars, pregVars, promptVars, concVars, legVars, aiVars>>

\* The server takes the next request; nothing of the last one is kept.
Siguiente ==
    /\ pc = "done"
    /\ pc' = "idle"
    /\ request' = NoRequest
    /\ extension' = ""
    /\ resultado' = NoResultado
    /\ upload_pdf' = Unused
    /\ response' = NoResponse
    /\ tmp' = {}
    /\ nfiles' = 0
    /\ calls' = <<>>
    /\ emergency' = FALSE
    /\ UNCHANGED <<envVars, planVars, convVars, pregVars, promptVars, concVars, legVars, aiVars>>

LegIdle ==
    /\ leg_pc = "idle"
    /\ leg_fn = "-"
    /\ leg_slides = 0
    /\ leg_i = 0
    /\ leg_texto = <<>>
    /\ leg_tmp = {}
    /\ leg_result = NoResult

\* A value call_gemini gives its caller: a str, None, a raised Exception, or
\* the third variant's dicts; v is the text, msg the error message
PyStr(t) == [k |-> "str", v |-> t, msg |-> "-"]
PyNone == [k |-> "None", v |-> "-", msg |-> "-"]
PyRaise(m) == [k |-> "raise", v |-> "-", msg |-> m]
PyDictError(m) == [k |-> "dict_error", v |-> "-", msg |-> m]
PyDictText(t) == [k |-> "dict_success", v |-> t, msg |-> "-"]
PyDictNoText == [k |-> "dict_success_no_text", v |-> "-", msg |-> "-"]
NoValue == [k |-> "-", v |-> "-", msg |-> "-"]

\* json.loads: the value (the text without its whitespace), or a failure
Parsed(val) == [ok |-> TRUE, val |-> val]
ParseError == [ok |-> FALSE, val |-> <<>>]

\* Before a text function is applied to j_in
JsonIdle ==
    /\ j_pc = "in"
    /\ j_op = "-"
    /\ j_texto = <<>>
    /\ j_parsed = ParseError

\* A JSON value as json.loads gives it: a str (v its characters), a list
\* (v its elements), a nonzero number, None, or a dict (v its fields, a
\* key that is absent holding None, which is what .get gives for it)
VStr(t) == [t |-> "str", v |-> t]
VList(l) == [t |-> "list", v |-> l]
VNum == [t |-> "num", v |-> <<>>]
VNone == [t |-> "None", v |-> <<>>]
VDict(d) == [t |-> "dict", v |-> d]

\* What normalize_question or shuffle_alternatives gives: a question dict,
\* None, or a raised exception
NoQuestion == [texto |-> <<>>, alternativas |-> VNone, correcta |-> VNone]
QRet(q) == [k |-> "ret", q |-> q]
QNone == [k |-> "None", q |-> NoQuestion]
QRaise == [k |-> "raise", q |-> NoQuestion]
NoOutcome == [k |-> "-", q |-> NoQuestion]

\* No parsed array is being gone through
PregIdle ==
    /\ p_pc = "idle"
    /\ p_k = 0
    /\ p_raw = VNone
    /\ p_qn = NoOutcome
    /\ p_q = NoOutcome
    /\ p_final = <<>>
    /\ p_todo = <<>>

NoArgs == [bloque |-> <<>>, num |-> 0, total |-> 0, preguntas |-> 0]

\* build_prompt is not being called
\* Neither the splitter nor the planner has been called
PlanIdle ==
    /\ s_pc = "idle"
    /\ s_texto = <<>>
    /\ s_bloques = <<>>
    /\ s_n = VNone
    /\ s_meta = 0

PromptIdle ==
    /\ b_pc = "idle"
    /\ b_variant = 0
    /\ b_args = NoArgs
    /\ b_prompt = <<>>

ExIdle ==
    /\ e_pc = "idle"
    /\ e_variant = 0
    /\ e_n = 0
    /\ e_i = 0
    /\ e_log = <<>>
    /\ e_todo = <<>>
    /\ e_result = "-"

GemIdle ==
    /\ g_pc = "idle"
    /\ g_variant = 0
    /\ g_key = "unset"
    /\ g_retries = 0
    /\ g_intento = 0
    /\ g_posts = 0
    /\ g_sleeps = 0
    /\ g_trace = <<>>
    /\ g_result = NoValue

\* What a request's strategies gave it: the inputs of procesar_archivo (o)
\* and of the rest of the handler (eo)
NoEntradas ==
    [o |-> OraculoPdf(Unused),
     eo |-> [conv |-> NoConv, pdf |-> Unused, unlink_ok |-> TRUE]]

\* The locals of a procesar_documento call that has not begun
ContextoIdle ==
    [pc |-> "idle", request |-> NoRequest, extension |-> "",
     resultado |-> NoResultado, upload_pdf |-> Unused, response |-> NoResponse,
     tmp |-> {}, nfiles |-> 0, calls |-> <<>>, emergency |-> FALSE,
     in |-> NoEntradas]

\* One request at most is being handled
ConcIdle ==
    /\ c_turno = 1
    /\ c_otro = ContextoIdle
    /\ c_in = NoEntradas
    /\ c_env0 = <<libreoffice_path, unoconv_path, pdf_lib>>

ReqIdle ==
    /\ pc = "idle"
    /\ request = NoRequest
    /\ extension = ""
    /\ resultado = NoResultado
    /\ upload_pdf = Unused
    /\ response = NoResponse
    /\ tmp = {}
    /\ nfiles = 0
    /\ calls = <<>>
    /\ emergency = FALSE

\* convertir_a_pdf has not been called
ConvIdle ==
    /\ k_pc = "idle"
    /\ k_ext = ""
    /\ k_c = NoConv
    /\ k_res = [ok |-> FALSE, path |-> NoPdf]
    /\ k_intentos = <<>>
    /\ k_tmp = {}

\* PDFConverter.__init__ and the installed PDF library: fixed at start-up
EnvInit ==
    /\ libreoffice_path \in BOOLEAN
    /\ unoconv_path \in BOOLEAN
    /\ pdf_lib \in {"fitz", "pdfplumber", "PyPDF2"}

\* Until a text function is given an input
JsonNoInput == JsonIdle /\ j_variant = 0 /\ j_in = <<>>

Init == EnvInit /\ ReqIdle /\ LegIdle /\ GemIdle /\ JsonNoInput /\ ExIdle /\ PregIdle /\ PromptIdle /\ ConcIdle
        /\ PlanIdle /\ ConvIdle
    /\ ConvIdle

Next == Recibir \/ Procesar \/ Responder \/ Siguiente

Spec == Init /\ [][Next]_vars

-----------------------------------------------------------------------------
(* legacy_reader.py *)

MaxSlides == 2   \* slides of a presentation
MaxPages == 2    \* pages of a PDF given to ocr_agresivo
DocMinLen == 50  \* leer_doc_antiguo keeps a raw text longer than this

Repetir(n) == [i \in 1..n |-> "a"]

\* Raw contents of a .doc: around the threshold, bare and padded
Crudos ==
    {<<>>, Repetir(DocMinLen), Repetir(DocMinLen + 1),
     <<SP>> \o Repetir(DocMinLen) \o <<NL>>,
     <<SP>> \o Repetir(DocMinLen + 1) \o <<NL>>}

SeqsHasta(S, n) == UNION {[1..m -> S] : m \in 0..n}

\* texto += text + "\n" over the pages, in order
RECURSIVE Juntar(_)
Juntar(ps) == IF ps = <<>> THEN <<>> ELSE Head(ps) \o <<NL>> \o Juntar(Tail(ps))

LegImagen == 0   \* the temp image of ocr_fallback

\* ocr_fallback: a blank image is saved to a temp file and read; any
\* exception gives "".  f.img is the creation of the image file, f.ocr the
\* OCR, f.unlink_ok the removal.
OcrFallback(f) ==
    CASE f.img = "raise" -> [res |-> Ret(<<>>), tmp |-> {}]
      [] f.img = "raise_leak" \/ f.ocr.k = "raise" \/ ~f.unlink_ok ->
            [res |-> Ret(<<>>), tmp |-> {LegImagen}]
      [] OTHER -> [res |-> Ret(Strip(f.ocr.t)), tmp |-> {}]

FallbackIns ==
    [img : {"ok", "raise", "raise_leak"}, ocr : TextOuts, unlink_ok : BOOLEAN]

\* leer_doc_antiguo: the raw bytes as latin-1 if long enough, else
\* ocr_fallback
LeerDocAntiguo(read, f) ==
    IF read.k = "ret" /\ Len(Strip(read.t)) > DocMinLen
    THEN [res |-> Ret(read.t), tmp |-> {}]
    ELSE OcrFallback(f)

\* leer_xls_antiguo: the cells' text trimmed, else ocr_fallback
LeerXlsAntiguo(read, f) ==
    IF read.k = "ret" THEN [res |-> Ret(Strip(read.t)), tmp |-> {}]
    ELSE OcrFallback(f)

\* ocr_agresivo: the pages' text joined and trimmed; any exception gives ""
OcrAgresivo(ok, pages) ==
    IF ok THEN [res |-> Ret(Strip(Juntar(pages))), tmp |-> {}]
    ELSE [res |-> Ret(<<>>), tmp |-> {}]

LegTermina(fn, r) ==
    /\ leg_fn' = fn
    /\ leg_result' = r.res
    /\ leg_tmp' = r.tmp
    /\ leg_pc' = "done"
    /\ UNCHANGED <<leg_slides, leg_i, leg_texto>>
    /\ UNCHANGED <<envVars, planVars, convVars, pregVars, promptVars, concVars, reqVars, aiVars>>

LlamarLeerDoc ==
    /\ leg_pc = "idle"
    /\ \E read \in {Ret(t) : t \in Crudos} \cup {Raise("Exception")},
          f \in FallbackIns :
         LegTermina("leer_doc_antiguo", LeerDocAntiguo(read, f))

LlamarLeerXls ==
    /\ leg_pc = "idle"
    /\ \E read \in TextOuts, f \in FallbackIns :
         LegTermina("leer_xls_antiguo", LeerXlsAntiguo(read, f))

LlamarOcrFallback ==
    /\ leg_pc = "idle"
    /\ \E f \in FallbackIns : LegTermina("ocr_fallback", OcrFallback(f))

LlamarOcrAgresivo ==
    /\ leg_pc = "idle"
    /\ \E ok \in BOOLEAN, pages \in SeqsHasta(Textos, MaxPages) :
         LegTermina("ocr_agresivo", OcrAgresivo(ok, pages))

\* leer_ppt_antiguo, lines 36-42: Presentation(path)
LeerPptAbrir ==
    /\ leg_pc = "idle"
    /\ leg_fn' = "leer_ppt_antiguo"
    /\ \E abre \in BOOLEAN, n \in 0..MaxSlides :
         IF abre
         THEN /\ leg_pc' = "slides"
              /\ leg_slides' = n
              /\ UNCHANGED leg_result
         ELSE /\ leg_pc' = "done"
              /\ leg_result' = Ret(<<>>)
              /\ UNCHANGED leg_slides
    /\ UNCHANGED <<leg_i, leg_texto, leg_tmp>>
    /\ UNCHANGED <<envVars, planVars, convVars, pregVars, promptVars, concVars, reqVars, aiVars>>

\* leer_ppt_antiguo, lines 47-53: the slide's image was made; OCR inside
\* try/except, os.unlink in `finally` with nothing around it
LeerPptImagen(out, ul) ==
    /\ leg_texto' = IF out.k = "ret" THEN leg_texto \o out.t \o <<NL>>
                    ELSE leg_texto
    /\ IF ul
       THEN /\ leg_i' = leg_i + 1
            /\ UNCHANGED <<leg_pc, leg_result, leg_tmp>>
       ELSE /\ leg_pc' = "done"
            /\ leg_result' = Raise("OSError")
            /\ leg_tmp' = leg_tmp \cup {leg_i + 1}
            /\ UNCHANGED leg_i

\* leer_ppt_antiguo, lines 44-53: one turn of the loop.  render is
\* render_slide_as_image: a path, or None with or without a file left.
LeerPptSlide ==
    /\ leg_pc = "slides"
    /\ leg_i < leg_slides
    /\ \E render \in {"ok", "none", "none_leak"}, out \in TextOuts, ul \in BOOLEAN :
         IF render = "ok" THEN LeerPptImagen(out, ul)
         ELSE /\ leg_i' = leg_i + 1
              /\ leg_tmp' = IF render = "none_leak" THEN leg_tmp \cup {leg_i + 1}
                            ELSE leg_tmp
              /\ UNCHANGED <<leg_pc, leg_result, leg_texto>>
    /\ UNCHANGED <<leg_fn, leg_slides>>
    /\ UNCHANGED <<envVars, planVars, convVars, pregVars, promptVars, concVars, reqVars, aiVars>>

\* leer_ppt_antiguo, line 55: return texto_total.strip()
LeerPptFin ==
    /\ leg_pc = "slides"
    /\ leg_i = leg_slides
    /\ leg_pc' = "done"
    /\ leg_result' = Ret(Strip(leg_texto))
    /\ UNCHANGED <<leg_fn, leg_slides, leg_i, leg_texto, leg_tmp>>
    /\ UNCHANGED <<envVars, planVars, convVars, pregVars, promptVars, concVars, reqVars, aiVars>>

\* The caller calls a reader again; nothing of the last call is kept.
LegSiguiente ==
    /\ leg_pc = "done"
    /\ leg_pc' = "idle"
    /\ leg_fn' = "-"
    /\ leg_slides' = 0
    /\ leg_i' = 0
    /\ leg_texto' = <<>>
    /\ leg_tmp' = {}
    /\ leg_result' = NoResult
    /\ UNCHANGED <<envVars, planVars, convVars, pregVars, promptVars, concVars, reqVars, aiVars>>

\* legacy_reader.py uses neither LibreOffice nor the PDF libraries.
InitLegacy ==
    /\ libreoffice_path = FALSE
    /\ unoconv_path = FALSE
    /\ pdf_lib = "fitz"
    /\ ReqIdle
    /\ LegIdle
    /\ GemIdle
    /\ JsonNoInput
    /\ ExIdle
    /\ PregIdle
    /\ PromptIdle
    /\ ConcIdle
    /\ PlanIdle
    /\ ConvIdle

NextLegacy ==
    \/ LlamarLeerDoc
    \/ LlamarLeerXls
    \/ LlamarOcrFallback
    \/ LlamarOcrAgresivo
    \/ LeerPptAbrir
    \/ LeerPptSlide
    \/ LeerPptFin
    \/ LegSiguiente

SpecLegacy == InitLegacy /\ [][NextLegacy]_vars

-----------------------------------------------------------------------------
(* test_backend.py: call_gemini of the three ai_service variants *)

MaxRetries == 2   \* largest `retries` a caller passes

Variantes == {1, 2, 3}

\* `if not GEMINI_API_KEY`: an unset and an empty key are both missing
HayClave(key) == key = "set"

\* What an attempt meets.  status 0: requests.post raised (transport
\* error, or "timeout" after the 60 seconds); otherwise the HTTP status
\* and the body: not JSON ("invalid"), JSON without the path to the text
\* ("malformed"), or JSON whose text is a non-empty string ("text"), the
\* empty string ("empty") or null ("null").
Cuerpos == {"invalid", "malformed", "text", "empty", "null"}
ErrorTransporte == [status |-> 0, body |-> "transport"]
TimeoutAgotado == [status |-> 0, body |-> "timeout"]
Encuentros == {ErrorTransporte} \cup [status : {200, 500}, body : Cuerpos]

GeminiTexto == "t"   \* the non-empty text of a response

\* data["candidates"][0]["content"]["parts"][0]["text"]
TextoDe(body) ==
    CASE body = "text" -> PyStr(GeminiTexto)
      [] body = "empty" -> PyStr("")
      [] OTHER -> PyNone

\* One turn of the first variant's loop (lines 149-162): fin iff it returns
IntentoV1(o) ==
    IF o.status = 200 /\ o.body \in {"text", "empty", "null"}
    THEN [fin |-> TRUE, val |-> TextoDe(o.body)]
    ELSE [fin |-> FALSE, val |-> NoValue]

\* One turn of the second variant's loop (lines 313-326): `if text:`
IntentoV2(o) ==
    IF o.status = 200 /\ o.body = "text"
    THEN [fin |-> TRUE, val |-> TextoDe(o.body)]
    ELSE [fin |-> FALSE, val |-> NoValue]

\* The third variant after requests.post (lines 529-553): no loop
IntentoV3(o) ==
    CASE o.status = 0 -> [fin |-> TRUE, val |-> PyRaise("requests exception")]
      [] o.body = "invalid" ->
            [fin |-> TRUE, val |-> PyDictError("Invalid JSON from Gemini")]
      [] o.status # 200 -> [fin |-> TRUE, val |-> PyDictError("Gemini API error")]
      [] o.body = "text" -> [fin |-> TRUE, val |-> PyDictText(GeminiTexto)]
      [] o.body = "empty" -> [fin |-> TRUE, val |-> PyDictText("")]
      [] OTHER -> [fin |-> TRUE, val |-> PyDictNoText]

\* A turn of the loop that never returns
IntentoSinReturn(variant, o) == [fin |-> FALSE, val |-> NoValue]

Intento(variant, o) ==
    CASE variant = 1 -> IntentoV1(o)
      [] variant = 2 -> IntentoV2(o)
      [] OTHER -> IntentoV3(o)

\* A missing key answered like a failed call
SinClaveNone(variant) == PyNone

\* lines 135-136, 299-300, 516-517: the key is missing
SinClave(variant) ==
    CASE variant = 1 -> PyRaise("GEMINI_API_KEY no esta configurada en Render/Railway")
      [] variant = 2 -> PyRaise("GEMINI_API_KEY no configurada")
      [] OTHER -> PyDictError("GEMINI_API_KEY not configured")

\* requests.post(..., timeout=60) in the first two variants; the third
\* passes no timeout (line 529)
TieneTimeout(variant) == variant \in {1, 2}

\* call_gemini is called
GLlamar ==
    /\ g_pc = "idle"
    /\ \E variant \in Variantes, key \in {"unset", "empty", "set"},
          retries \in 0..MaxRetries :
         /\ g_variant' = variant
         /\ g_key' = key
         /\ g_retries' = IF variant = 3 THEN 1 ELSE retries
         /\ IF HayClave(key)
            THEN g_pc' = "loop" /\ UNCHANGED g_result
            ELSE g_pc' = "done" /\ g_result' = SinClave(variant)
    /\ UNCHANGED <<g_intento, g_posts, g_sleeps, g_trace>>
    /\ UNCHANGED <<envVars, planVars, convVars, pregVars, promptVars, concVars, reqVars, legVars, jsonVars, exVars>>

\* r = requests.post(...) is issued
GPost ==
    /\ g_pc = "loop"
    /\ g_intento < g_retries
    /\ g_pc' = "waiting"
    /\ g_posts' = g_posts + 1
    /\ UNCHANGED <<g_variant, g_key, g_retries, g_intento, g_sleeps, g_trace, g_result>>
    /\ UNCHANGED <<envVars, planVars, convVars, pregVars, promptVars, concVars, reqVars, legVars, jsonVars, exVars>>

\* The attempt met `o`: the rest of the turn
GAtender(o) ==
    /\ g_trace' = Append(g_trace, o)
    /\ IF Intento(g_variant, o).fin
       THEN g_pc' = "done" /\ g_result' = Intento(g_variant, o).val
       ELSE g_pc' = "sleep" /\ UNCHANGED g_result
    /\ UNCHANGED <<g_variant, g_key, g_retries, g_intento, g_posts, g_sleeps>>
    /\ UNCHANGED <<envVars, planVars, convVars, pregVars, promptVars, concVars, reqVars, legVars, jsonVars, exVars>>

\* The server answers, or the connection fails; a server may never do so
GResponde ==
    /\ g_pc = "waiting"
    /\ \E o \in Encuentros : GAtender(o)

\* The 60 seconds are over: requests.post raises
GTimeout ==
    /\ g_pc = "waiting"
    /\ TieneTimeout(g_variant)
    /\ GAtender(TimeoutAgotado)

\* time.sleep(...) at the end of a turn that did not return
GSleep ==
    /\ g_pc = "sleep"
    /\ g_pc' = "loop"
    /\ g_sleeps' = g_sleeps + 1
    /\ g_intento' = g_intento + 1
    /\ UNCHANGED <<g_variant, g_key, g_retries, g_posts, g_trace, g_result>>
    /\ UNCHANGED <<envVars, planVars, convVars, pregVars, promptVars, concVars, reqVars, legVars, jsonVars, exVars>>

\* `return None` after the loop
GReturnNone ==
    /\ g_pc = "loop"
    /\ g_intento >= g_retries
    /\ g_pc' = "done"
    /\ g_result' = PyNone
    /\ UNCHANGED <<g_variant, g_key, g_retries, g_intento, g_posts, g_sleeps, g_trace>>
    /\ UNCHANGED <<envVars, planVars, convVars, pregVars, promptVars, concVars, reqVars, legVars, jsonVars, exVars>>

\* The caller calls again; nothing of the last call is kept.
GSiguiente ==
    /\ g_pc = "done"
    /\ g_pc' = "idle"
    /\ g_variant' = 0
    /\ g_key' = "unset"
    /\ g_retries' = 0
    /\ g_intento' = 0
    /\ g_posts' = 0
    /\ g_sleeps' = 0
    /\ g_trace' = <<>>
    /\ g_result' = NoValue
    /\ UNCHANGED <<envVars, planVars, convVars, pregVars, promptVars, concVars, reqVars, legVars, jsonVars, exVars>>

\* call_gemini uses nothing of the converter or of a request.
InitGemini ==
    /\ libreoffice_path = FALSE
    /\ unoconv_path = FALSE
    /\ pdf_lib = "fitz"
    /\ ReqIdle
    /\ LegIdle
    /\ GemIdle
    /\ JsonNoInput
    /\ ExIdle
    /\ PregIdle
    /\ PromptIdle
    /\ ConcIdle
    /\ PlanIdle
    /\ ConvIdle

NextGemini ==
    \/ GLlamar
    \/ GPost
    \/ GResponde
    \/ GTimeout
    \/ GSleep
    \/ GReturnNone
    \/ GSiguiente

\* The interpreter always takes call_gemini's next step; whether the server
\* ever answers is not up to it.
SpecGemini ==
    /\ InitGemini
    /\ [][NextGemini]_vars
    /\ WF_vars(GPost \/ GTimeout \/ GSleep \/ GReturnNone)

-----------------------------------------------------------------------------
(* test_backend.py: extract_clean_json, fix_json and json.loads *)

\* A response is a sequence of tokens: a backtick, the word json, the JSON
\* punctuation, a scalar or key-value pair ("q"), whitespace (SP, NL) and a
\* character outside the basic multilingual plane.
BT == "backtick"
JS == "json"
AST == "astral"

MaxLen == 4   \* longest response enumerated token by token

Alfabeto == {BT, JS, "[", "]", "q", AST}

Ausente == <<"None">>   \* the argument None

Fence == <<BT, BT, BT>>
FenceJson == <<BT, BT, BT, JS>>

\* str.replace(pat, ""): occurrences found left to right, without overlap
RECURSIVE Quitar(_, _)
Quitar(t, pat) ==
    IF Len(t) < Len(pat) THEN t
    ELSE IF SubSeq(t, 1, Len(pat)) = pat
    THEN Quitar(SubSeq(t, Len(pat) + 1, Len(t)), pat)
    ELSE <<Head(t)>> \o Quitar(Tail(t), pat)

\* str.find(c) from index i onwards, 0 for Python's -1
RECURSIVE FindFrom(_, _, _)
FindFrom(t, c, i) ==
    IF i > Len(t) THEN 0 ELSE IF t[i] = c THEN i ELSE FindFrom(t, c, i + 1)

\* str.rfind(c) from index i downwards, 0 for Python's -1
RECURSIVE RFindFrom(_, _, _)
RFindFrom(t, c, i) ==
    IF i < 1 THEN 0 ELSE IF t[i] = c THEN i ELSE RFindFrom(t, c, i - 1)

\* extract_clean_json, lines 346-352: text[start:end+1]
Recortar(t, start, end) ==
    IF start = 0 \/ end = 0 THEN <<"[", "]">> ELSE SubSeq(t, start, end)

\* extract_clean_json, lines 341-343: the markers removed; the second
\* variant also strips
SinMarcas(variant, text) ==
    IF variant = 2 THEN Strip(Quitar(Quitar(text, FenceJson), Fence))
    ELSE Quitar(Quitar(text, FenceJson), Fence)

\* extract_clean_json cutting at the first "]" instead of the last
ExtractCleanJsonPrimero(t) ==
    Recortar(t, FindFrom(t, "[", 1), FindFrom(t, "]", 1))

ExtractCleanJsonDe(t) ==
    Recortar(t, FindFrom(t, "[", 1), RFindFrom(t, "]", Len(t)))

\* extract_clean_json (lines 173-187 and 337-352)
ExtractCleanJson(variant, text) ==
    IF text = Ausente \/ text = <<>> THEN <<"[", "]">>
    ELSE ExtractCleanJsonDe(SinMarcas(variant, text))

RECURSIVE Contar(_, _, _)
Contar(t, c, i) ==
    IF i > Len(t) THEN 0
    ELSE (IF t[i] = c THEN 1 ELSE 0) + Contar(t, c, i + 1)

Cierres(k) == IF k > 0 THEN [i \in 1..k |-> "]"] ELSE <<>>

\* fix_json with one "]" appended whenever any is missing
FixCerrarUna(u) ==
    u \o (IF Contar(u, "[", 1) > Contar(u, "]", 1) THEN <<"]">> ELSE <<>>)

\* fix_json, lines 366-369: the missing closing brackets
FixCerrar(u) == u \o Cierres(Contar(u, "[", 1) - Contar(u, "]", 1))

\* fix_json (lines 358-371)
FixJson(json_text) == FixCerrar(SelectSeq(json_text, LAMBDA c : c # AST))

\* json.loads reading token i with the open brackets in `stack`; st is
\* what may come next: a value ("val"), a value or a closing bracket
\* ("first"), or a separator, a closing bracket or the end ("after")
RECURSIVE Analizar(_, _, _, _)
Analizar(t, i, stack, st) ==
    IF i > Len(t) THEN stack = <<>> /\ st = "after"
    ELSE CASE IsSpace(t[i]) -> Analizar(t, i + 1, stack, st)
           [] t[i] = "q" /\ st # "after" -> Analizar(t, i + 1, stack, "after")
           [] t[i] \in {"[", "{"} /\ st # "after" ->
                Analizar(t, i + 1, <<t[i]>> \o stack, "first")
           [] t[i] = "]" /\ st # "val" /\ stack # <<>> /\ Head(stack) = "[" ->
                Analizar(t, i + 1, Tail(stack), "after")
           [] t[i] = "}" /\ st # "val" /\ stack # <<>> /\ Head(stack) = "{" ->
                Analizar(t, i + 1, Tail(stack), "after")
           [] t[i] = "," /\ st = "after" /\ stack # <<>> ->
                Analizar(t, i + 1, stack, "val")
           [] OTHER -> FALSE

\* json.loads
JsonLoads(t) ==
    IF Analizar(t, 1, <<>>, "val")
    THEN Parsed(SelectSeq(t, LAMBDA c : ~IsSpace(c)))
    ELSE ParseError

\* generar_preguntas_por_bloque, lines 238-244 and 468-474: from the raw
\* response to the parsed array; only the second variant repairs
LeerRespuesta(variant, raw) ==
    IF variant = 2 THEN JsonLoads(FixJson(ExtractCleanJson(variant, raw)))
    ELSE JsonLoads(ExtractCleanJson(variant, raw))

\* A question object: texto, alternativas (an array), correcta
Pregunta == <<"{", "q", ",", "[", "q", ",", "q", "]", ",", "q", "}">>

\* Well-formed arrays of question objects
Arreglos ==
    {<<"[", "]">>,
     <<"[">> \o Pregunta \o <<"]">>,
     <<"[">> \o Pregunta \o <<",", SP>> \o Pregunta \o <<"]">>}

\* The array inside ```json ... ``` fencing
Envolver(a) == FenceJson \o <<NL>> \o a \o <<NL>> \o Fence

\* The array without its one trailing "]"
SinCierre(a) == SubSeq(a, 1, Len(a) - 1)

SeqsHastaDe(S, n) == UNION {[1..m -> S] : m \in 0..n}

EntradasJson ==
    SeqsHastaDe(Alfabeto, MaxLen) \cup {Ausente} \cup Arreglos
    \cup {Envolver(a) : a \in Arreglos} \cup {SinCierre(a) : a \in Arreglos}
    \cup {<<SP, "]", "q", "[", NL>>, <<"q", "[", "q", "]", "q", NL>>}

JAplicar(op, texto, parsed) ==
    /\ j_pc = "in"
    /\ j_pc' = "out"
    /\ j_op' = op
    /\ j_texto' = texto
    /\ j_parsed' = parsed
    /\ UNCHANGED <<j_variant, j_in>>
    /\ UNCHANGED <<envVars, planVars, convVars, pregVars, promptVars, concVars, reqVars, legVars, gemVars, exVars>>

\* clean = extract_clean_json(raw)
JExtract ==
    /\ j_variant \in {1, 2}
    /\ JAplicar("extract", ExtractCleanJson(j_variant, j_in), ParseError)

\* fixed = fix_json(clean), on any str
JFix ==
    /\ j_in # Ausente
    /\ JAplicar("fix", FixJson(j_in), ParseError)

\* arr = json.loads(...) of the cleaned response
JLeer ==
    /\ j_variant \in {1, 2}
    /\ JAplicar("leer", <<>>, LeerRespuesta(j_variant, j_in))

InitJson ==
    /\ libreoffice_path = FALSE
    /\ unoconv_path = FALSE
    /\ pdf_lib = "fitz"
    /\ ReqIdle
    /\ LegIdle
    /\ GemIdle
    /\ ExIdle
    /\ PregIdle
    /\ PromptIdle
    /\ ConcIdle
    /\ PlanIdle
    /\ ConvIdle
    /\ JsonIdle
    /\ j_variant \in {1, 2}
    /\ j_in \in EntradasJson

NextJson == JExtract \/ JFix \/ JLeer

SpecJson == InitJson /\ [][NextJson]_vars

-----------------------------------------------------------------------------
(* test_backend.py: generar_preguntas_por_bloque and generar_examen *)

MaxBloques == 2   \* most blocks of an exam

\* The top-level elements of a parsed array, from token i at depth d:
\* "obj" for an object, "other" for anything else
RECURSIVE Elementos(_, _, _)
Elementos(t, i, d) ==
    IF i > Len(t) THEN <<>>
    ELSE (IF d = 1 /\ t[i] \notin {",", "]", "}"}
          THEN <<IF t[i] = "{" THEN "obj" ELSE "other">> ELSE <<>>)
         \o Elementos(t, i + 1,
                      CASE t[i] \in {"[", "{"} -> d + 1
                        [] t[i] \in {"]", "}"} -> d - 1
                        [] OTHER -> d)

Da(n) == [k |-> "ret", n |-> n]
Lanza == [k |-> "raise", n |-> 0]

\* Lines 476-483: normalize_question on each element; an element that is
\* no object has no .get, an object without the fields is dropped
Normalizadas(elems, campos) ==
    IF \E i \in DOMAIN elems : elems[i] = "other" THEN Lanza
    ELSE Da(IF campos = "ok" THEN Len(elems) ELSE 0)

\* generar_preguntas_por_bloque without the try/except around json.loads
TrasLeerSinTry(variant, parsed, campos) ==
    IF ~parsed.ok THEN Lanza
    ELSE IF variant = 1 THEN Da(Len(Elementos(parsed.val, 1, 0)))
    ELSE Normalizadas(Elementos(parsed.val, 1, 0), campos)

\* Lines 241-244 and 471-483: the response was read (parsed)
TrasLeer(variant, parsed, campos) ==
    IF ~parsed.ok THEN Da(0)
    ELSE IF variant = 1 THEN Da(Len(Elementos(parsed.val, 1, 0)))
    ELSE Normalizadas(Elementos(parsed.val, 1, 0), campos)

\* generar_preguntas_por_bloque (lines 229-244 and 460-483): `out` is what
\* call_gemini gave, `raw` the text when it gave one
PreguntasPorBloque(variant, out, raw, campos) ==
    CASE out.k = "raise" -> Lanza
      [] out.k = "None" \/ raw = <<>> -> Da(0)
      [] OTHER -> TrasLeer(variant, LeerRespuesta(variant, raw), campos)

\* What call_gemini may give for a block, and the responses it may carry
SalidasGemini == {PyNone, PyStr(GeminiTexto), SinClave(2)}

RespuestasBloque ==
    {<<>>, <<"q">>, <<"[", "q", "]">>, <<"]", "[">>,
     Envolver(<<"[">> \o Pregunta \o <<"]">>),
     <<"[">> \o Pregunta \o <<",", SP>> \o Pregunta \o <<"]">>,
     SinCierre(<<"[">> \o Pregunta \o <<"]">>)}

\* generar_examen is called with 0..MaxBloques blocks
ELlamar ==
    /\ e_pc = "idle"
    /\ \E variant \in {1, 2}, n \in 0..MaxBloques :
         /\ e_variant' = variant
         /\ e_n' = n
    /\ e_pc' = "loop"
    /\ e_i' = 1
    /\ UNCHANGED <<e_log, e_todo, e_result>>
    /\ UNCHANGED <<envVars, planVars, convVars, pregVars, promptVars, concVars, reqVars, legVars, gemVars, jsonVars>>

\* What a turn of the loop keeps of its call: block_num and total_blocks as
\* passed at lines 256-257 and 495-496, what the block met and what it gave
Llamada(out, raw, campos, r) ==
    [block_num |-> e_i, total_blocks |-> e_n,
     out |-> out, raw |-> raw, campos |-> campos, r |-> r]

\* A turn of the loop that puts the block's questions before the others
EExtenderAlFrente(out, raw, campos, r) ==
    /\ e_log' = Append(e_log, Llamada(out, raw, campos, r))
    /\ IF r.k = "raise"
       THEN /\ e_pc' = "done"
            /\ e_result' = "raise"
            /\ UNCHANGED <<e_i, e_todo>>
       ELSE /\ e_todo' = [j \in 1..r.n |-> e_i] \o e_todo
            /\ e_i' = e_i + 1
            /\ UNCHANGED <<e_pc, e_result>>

\* One turn of the loop: the block gave r
EExtender(out, raw, campos, r) ==
    /\ e_log' = Append(e_log, Llamada(out, raw, campos, r))
    /\ IF r.k = "raise"
       THEN /\ e_pc' = "done"
            /\ e_result' = "raise"
            /\ UNCHANGED <<e_i, e_todo>>
       ELSE /\ e_todo' = e_todo \o [j \in 1..r.n |-> e_i]
            /\ e_i' = e_i + 1
            /\ UNCHANGED <<e_pc, e_result>>

\* generar_examen, lines 492-501: preguntas = ...; todo.extend(preguntas)
EBloque ==
    /\ e_pc = "loop"
    /\ e_i <= e_n
    /\ \E out \in SalidasGemini, raw \in RespuestasBloque, campos \in {"ok", "faltan"} :
         /\ (out.k # "str") => (raw = <<>> /\ campos = "ok")
         /\ EExtender(out, raw, campos, PreguntasPorBloque(e_variant, out, raw, campos))
    /\ UNCHANGED <<e_variant, e_n>>
    /\ UNCHANGED <<envVars, planVars, convVars, pregVars, promptVars, concVars, reqVars, legVars, gemVars, jsonVars>>

\* generar_examen, line 503: return todo
EReturn ==
    /\ e_pc = "loop"
    /\ e_i > e_n
    /\ e_pc' = "done"
    /\ e_result' = "list"
    /\ UNCHANGED <<e_variant, e_n, e_i, e_log, e_todo>>
    /\ UNCHANGED <<envVars, planVars, convVars, pregVars, promptVars, concVars, reqVars, legVars, gemVars, jsonVars>>

\* The caller asks for another exam; nothing of the last one is kept.
ESiguiente ==
    /\ e_pc = "done"
    /\ e_pc' = "idle"
    /\ e_variant' = 0
    /\ e_n' = 0
    /\ e_i' = 0
    /\ e_log' = <<>>
    /\ e_todo' = <<>>
    /\ e_result' = "-"
    /\ UNCHANGED <<envVars, planVars, convVars, pregVars, promptVars, concVars, reqVars, legVars, gemVars, jsonVars>>

InitExamen ==
    /\ libreoffice_path = FALSE
    /\ unoconv_path = FALSE
    /\ pdf_lib = "fitz"
    /\ ReqIdle
    /\ LegIdle
    /\ GemIdle
    /\ JsonNoInput
    /\ ExIdle
    /\ PregIdle
    /\ PromptIdle
    /\ ConcIdle
    /\ PlanIdle
    /\ ConvIdle

NextExamen == ELlamar \/ EBloque \/ EReturn \/ ESiguiente

SpecExamen == InitExamen /\ [][NextExamen]_vars

-----------------------------------------------------------------------------
(* test_backend.py: normalize_question, shuffle_alternatives and the loop     *)
(* of generar_preguntas_por_bloque over the parsed array (second variant)     *)

MaxPreguntas == 1   \* most elements of a parsed array

\* Python truth value of a JSON value
Truthy(x) ==
    CASE x.t \in {"str", "list"} -> x.v # <<>>
      [] x.t = "None" -> FALSE
      [] OTHER -> TRUE

\* a or b
PyOr(a, b) == IF Truthy(a) THEN a ELSE b

\* str.lower() on the letters the model has in both cases
LowerChar(c) ==
    CASE c = "A" -> "a" [] c = "B" -> "b" [] c = "C" -> "c" [] c = "D" -> "d"
      [] OTHER -> c

Lower(t) == [i \in DOMAIN t |-> LowerChar(t[i])]

\* s.startswith(prefix)
StartsWith(s, prefix) ==
    /\ Len(prefix) <= Len(s)
    /\ SubSeq(s, 1, Len(prefix)) = prefix

\* s.split(")")[0]: what stands before the first ")", all of s without one
RECURSIVE SplitLabel(_, _)
SplitLabel(s, i) ==
    IF i > Len(s) THEN s
    ELSE IF s[i] = ")" THEN SubSeq(s, 1, i - 1)
    ELSE SplitLabel(s, i + 1)

\* The key resp_correcta, which the docstring names, looked up where the
\* code looks up respuesta_correcta
ResolverCorrectaDocstring(raw) == PyOr(raw.correcta, VStr(<<>>))

\* Line 383: correcta = raw.get("correcta") or raw.get("respuesta_correcta") or ""
ResolverCorrecta(raw) == PyOr(raw.correcta, PyOr(raw.respuesta_correcta, VStr(<<>>)))

\* normalize_question without `not correcta` in its test
NormalizarSinCorrecta(texto, alternativas, correcta) ==
    IF ~Truthy(texto) \/ ~Truthy(alternativas) THEN QNone
    ELSE IF texto.t # "str" \/ correcta.t # "str" THEN QRaise
    ELSE QRet([texto |-> Strip(texto.v), alternativas |-> alternativas,
               correcta |-> VStr(Lower(correcta.v))])

\* Lines 385-392: the three resolved values; .strip() and .lower() exist
\* on str only
Normalizar(texto, alternativas, correcta) ==
    IF ~Truthy(texto) \/ ~Truthy(alternativas) \/ ~Truthy(correcta) THEN QNone
    ELSE IF texto.t # "str" \/ correcta.t # "str" THEN QRaise
    ELSE QRet([texto |-> Strip(texto.v), alternativas |-> alternativas,
               correcta |-> VStr(Lower(correcta.v))])

\* normalize_question (lines 377-392); raw.get exists on a dict only
NormalizeQuestion(raw) ==
    IF raw.t # "dict" THEN QRaise
    ELSE Normalizar(PyOr(raw.v.texto, PyOr(raw.v.pregunta, VStr(<<>>))),
                    PyOr(raw.v.alternativas, PyOr(raw.v.opciones, VList(<<>>))),
                    ResolverCorrecta(raw.v))

\* `for opt in opciones`: the elements of a list, the characters of a str
Iterar(opciones) ==
    IF opciones.t = "list" THEN opciones.v
    ELSE [i \in DOMAIN opciones.v |-> VStr(<<opciones.v[i]>>)]

\* Lines 403-407: the first option that starts with correcta, None without
\* one; .lower() raises on an option that is no str and is reached
RECURSIVE TextoCorrecto(_, _, _)
TextoCorrecto(opts, i, correcta) ==
    IF i > Len(opts) THEN [k |-> "ret", v |-> VNone]
    ELSE IF opts[i].t # "str" THEN [k |-> "raise", v |-> VNone]
    ELSE IF StartsWith(Lower(opts[i].v), correcta) THEN [k |-> "ret", v |-> opts[i]]
    ELSE TextoCorrecto(opts, i + 1, correcta)

\* The orders random.shuffle may leave n elements in
Permutaciones(n) ==
    {p \in [1..n -> 1..n] : \A i, j \in 1..n : p[i] = p[j] => i = j}

\* A shuffle that rewrites each option's label to the letter of its new
\* position
BarajarReetiquetando(opciones, perm) ==
    IF opciones.t = "list"
    THEN QRet([NoQuestion EXCEPT !.alternativas =
                   VList([i \in DOMAIN opciones.v |->
                            IF opciones.v[perm[i]].t = "str" /\ i <= 4
                               /\ opciones.v[perm[i]].v # <<>>
                            THEN VStr(<<(<<"a", "b", "c", "d">>)[i]>>
                                      \o Tail(opciones.v[perm[i]].v))
                            ELSE opciones.v[perm[i]]])])
    ELSE IF Len(opciones.v) >= 2 THEN QRaise
    ELSE QRet([NoQuestion EXCEPT !.alternativas = opciones])

\* Line 409: random.shuffle(opciones) as the order perm; a str of two or
\* more characters takes no item assignment
Barajar(opciones, perm) ==
    IF opciones.t = "list"
    THEN QRet([NoQuestion EXCEPT !.alternativas =
                   VList([i \in DOMAIN opciones.v |-> opciones.v[perm[i]]])])
    ELSE IF Len(opciones.v) >= 2 THEN QRaise
    ELSE QRet([NoQuestion EXCEPT !.alternativas = opciones])

\* Lines 411-415: the label of the option equal to texto_correcto
NuevaCorrecta(texto_correcto) ==
    IF texto_correcto = VNone THEN VNone
    ELSE VStr(Lower(SplitLabel(texto_correcto.v, 1)))

\* Lines 409-420, texto_correcto found
TrasBuscar(question, tc, barajadas) ==
    IF tc.k = "raise" \/ barajadas.k = "raise" THEN QRaise
    ELSE QRet([texto |-> question.texto,
               alternativas |-> barajadas.q.alternativas,
               correcta |-> NuevaCorrecta(tc.v)])

\* shuffle_alternatives (lines 398-420) when random.shuffle chooses perm;
\* a number has no iteration
ShuffleAlternatives(question, perm) ==
    IF question.alternativas.t \notin {"list", "str"} THEN QRaise
    ELSE TrasBuscar(question,
                    TextoCorrecto(Iterar(question.alternativas), 1, question.correcta.v),
                    Barajar(question.alternativas, perm))

\* The values the LLM may put under the keys of a question
Alt(letra) == VStr(<<letra, ")", SP, "x", letra>>)
L4 == VList(<<Alt("a"), Alt("b"), Alt("c"), Alt("d")>>)
L3 == VList(<<Alt("a"), Alt("B"), Alt("c")>>)
LU == VList(<<VStr(<<"x">>), VStr(<<"b", "x">>)>>)
LN == VList(<<Alt("b"), VNum>>)

TextosCrudos == {VNone, VStr(<<>>), VStr(<<SP>>), VStr(<<"q", SP>>), VNum}
AlternativasCrudas == {VNone, VList(<<>>), L4, L3, LU, LN, VStr(<<"b">>), VNum}
CorrectasCrudas == {VNone, VStr(<<>>), VStr(<<"b">>), VStr(<<"B">>), VStr(<<"e">>), VNum}

SinClaves ==
    [texto |-> VNone, pregunta |-> VNone, alternativas |-> VNone,
     opciones |-> VNone, correcta |-> VNone, respuesta_correcta |-> VNone]

\* A question under the keys texto/alternativas/correcta
ConTextoAlternativas(t, a, c) ==
    VDict([SinClaves EXCEPT !.texto = t, !.alternativas = a, !.correcta = c])

\* The same under the keys pregunta/opciones/respuesta_correcta
ConPreguntaOpciones(t, a, c) ==
    VDict([SinClaves EXCEPT !.pregunta = t, !.opciones = a, !.respuesta_correcta = c])

\* Both sets of keys present, the first holding empty values
ConAmbas(t, a, c) ==
    VDict([texto |-> VStr(<<>>), pregunta |-> t, alternativas |-> VList(<<>>),
           opciones |-> a, correcta |-> VStr(<<>>), respuesta_correcta |-> c])

\* The elements a parsed array may hold
Crudas ==
    {ConTextoAlternativas(t, a, c) : t \in TextosCrudos, a \in AlternativasCrudas, c \in CorrectasCrudas}
    \cup {ConPreguntaOpciones(t, a, c) : t \in TextosCrudos, a \in AlternativasCrudas, c \in CorrectasCrudas}
    \cup {ConAmbas(t, a, c) : t \in {VStr(<<"q", SP>>)}, a \in {L4, VNone}, c \in CorrectasCrudas}
    \cup {VStr(<<"q">>), VNum, VList(<<>>)}

\* json.loads gave an array; the loop of line 477 begins
PEmpezar ==
    /\ p_pc = "idle"
    /\ p_pc' = "for"
    /\ UNCHANGED <<p_k, p_raw, p_qn, p_q, p_final, p_todo>>
    /\ UNCHANGED <<envVars, planVars, convVars, promptVars, concVars, reqVars, legVars, aiVars>>

\* Lines 477-478: for q in arr: qn = normalize_question(q)
PNormalizar ==
    /\ p_pc = "for"
    /\ p_k < MaxPreguntas
    /\ \E q \in Crudas :
         /\ p_raw' = q
         /\ p_qn' = NormalizeQuestion(q)
         /\ p_pc' = IF NormalizeQuestion(q).k = "raise" THEN "raised" ELSE "if"
    /\ p_k' = p_k + 1
    /\ p_q' = NoOutcome
    /\ UNCHANGED <<p_final, p_todo>>
    /\ UNCHANGED <<envVars, planVars, convVars, promptVars, concVars, reqVars, legVars, aiVars>>

\* Line 479, qn is None: the next turn
PDescartar ==
    /\ p_pc = "if"
    /\ p_qn.k = "None"
    /\ p_pc' = "for"
    /\ UNCHANGED <<p_k, p_raw, p_qn, p_q, p_final, p_todo>>
    /\ UNCHANGED <<envVars, planVars, convVars, promptVars, concVars, reqVars, legVars, aiVars>>

\* What lines 480-481 do with the shuffled question r
PAgregar(r) ==
    /\ p_q' = r
    /\ IF r.k = "raise"
       THEN p_pc' = "raised" /\ UNCHANGED p_final
       ELSE p_pc' = "for" /\ p_final' = Append(p_final, r.q)

\* Lines 479-481: qn = shuffle_alternatives(qn); final.append(qn)
PBarajar ==
    /\ p_pc = "if"
    /\ p_qn.k = "ret"
    /\ \E perm \in Permutaciones(Len(Iterar(p_qn.q.alternativas))) :
         PAgregar(ShuffleAlternatives(p_qn.q, perm))
    /\ UNCHANGED <<p_k, p_raw, p_qn, p_todo>>
    /\ UNCHANGED <<envVars, planVars, convVars, promptVars, concVars, reqVars, legVars, aiVars>>

\* Line 483 and lines 501-503 for an exam of this one block: return final;
\* todo.extend(preguntas); return todo
PReturn ==
    /\ p_pc = "for"
    /\ p_todo' = p_final
    /\ p_pc' = "done"
    /\ UNCHANGED <<p_k, p_raw, p_qn, p_q, p_final>>
    /\ UNCHANGED <<envVars, planVars, convVars, promptVars, concVars, reqVars, legVars, aiVars>>

\* The next array; nothing of the last one is kept.
PSiguiente ==
    /\ p_pc \in {"done", "raised"}
    /\ p_pc' = "idle"
    /\ p_k' = 0
    /\ p_raw' = VNone
    /\ p_qn' = NoOutcome
    /\ p_q' = NoOutcome
    /\ p_final' = <<>>
    /\ p_todo' = <<>>
    /\ UNCHANGED <<envVars, planVars, convVars, promptVars, concVars, reqVars, legVars, aiVars>>

InitPreguntas ==
    /\ libreoffice_path = FALSE
    /\ unoconv_path = FALSE
    /\ pdf_lib = "fitz"
    /\ ReqIdle
    /\ LegIdle
    /\ GemIdle
    /\ JsonNoInput
    /\ ExIdle
    /\ PregIdle
    /\ PromptIdle
    /\ ConcIdle
    /\ PlanIdle
    /\ ConvIdle

NextPreguntas ==
    PEmpezar \/ PNormalizar \/ PDescartar \/ PBarajar \/ PReturn \/ PSiguiente

SpecPreguntas == InitPreguntas /\ [][NextPreguntas]_vars

-----------------------------------------------------------------------------
(* test_backend.py: build_prompt (first and second variant) *)

MaxBloque == 2   \* longest block text, in characters

\* str(n) for n >= 0, as the f-string writes an int
RECURSIVE Decimal(_)
Decimal(n) ==
    IF n < 10 THEN <<<<"0", "1", "2", "3", "4", "5", "6", "7", "8", "9">>[n + 1]>>
    ELSE Decimal(n \div 10) \o Decimal(n % 10)

\* The fixed text of the template, a word standing for each stretch that
\* holds no substitution; the line breaks next to the ends are kept
Cabecera(variant) == <<NL, "Eres un generador ... Este es el bloque", SP>>

Medio(variant) == <<SP, "de", SP>>

Instrucciones(variant) ==
    IF variant = 1
    THEN <<SP, "bloques totales.", NL, "- Evita ... 1. Genera al menos", SP>>
    ELSE <<".", NL, "- Evita ... 1. Genera al menos", SP>>

Formato(variant) ==
    IF variant = 1
    THEN <<SP, "preguntas (mas si el contenido lo permite).", NL,
           "2. Cada pregunta ... BLOQUE A PROCESAR:", NL>>
    ELSE <<SP, "preguntas.", NL, "2. EXACTAMENTE 4 alternativas ... BLOQUE:", NL>>

\* build_prompt (lines 193-223 and 426-454): the f-string, then .strip()
BuildPrompt(variant, bloque, num, total, preguntas) ==
    Strip(Cabecera(variant) \o Decimal(num) \o Medio(variant) \o Decimal(total)
          \o Instrucciones(variant) \o Decimal(preguntas) \o Formato(variant)
          \o bloque \o <<NL>>)

\* The block texts, block counts and targets build_prompt is called with
BloquesTexto == SeqsHastaDe({SP, NL, "x"}, MaxBloque)
Totales == {1, 2, 10}
Metas == {8, 25}

\* build_prompt(bloque, num, total, preguntas) is called and returns
BLlamar ==
    /\ b_pc = "idle"
    /\ \E variant \in {1, 2}, bloque \in BloquesTexto, total \in Totales,
          preguntas \in Metas :
         \E num \in 1..total :
            /\ b_variant' = variant
            /\ b_args' = [bloque |-> bloque, num |-> num, total |-> total,
                          preguntas |-> preguntas]
            /\ b_prompt' = BuildPrompt(variant, bloque, num, total, preguntas)
    /\ b_pc' = "done"
    /\ UNCHANGED <<envVars, planVars, convVars, pregVars, concVars, reqVars, legVars, aiVars>>

\* The next call; nothing of the last one is kept.
BSiguiente ==
    /\ b_pc = "done"
    /\ b_pc' = "idle"
    /\ b_variant' = 0
    /\ b_args' = NoArgs
    /\ b_prompt' = <<>>
    /\ UNCHANGED <<envVars, planVars, convVars, pregVars, concVars, reqVars, legVars, aiVars>>

InitPrompt ==
    /\ libreoffice_path = FALSE
    /\ unoconv_path = FALSE
    /\ pdf_lib = "fitz"
    /\ ReqIdle
    /\ LegIdle
    /\ GemIdle
    /\ JsonNoInput
    /\ ExIdle
    /\ PregIdle
    /\ PromptIdle
    /\ ConcIdle
    /\ PlanIdle
    /\ ConvIdle

NextPrompt == BLlamar \/ BSiguiente

SpecPrompt == InitPrompt /\ [][NextPrompt]_vars

-----------------------------------------------------------------------------
(* app.py: two /procesar requests handled concurrently by one process *)

\* The locals of the running procesar_documento call (request.files,
\* extension, temp_path and the files made for it, resultado) with what it
\* has consumed; the model's unlink discipline keeps one request's paths
\* apart from the other's, as NamedTemporaryFile and mkdtemp do.  A local
\* `extension` kept at module level instead would read as:
ContextoExtensionGlobal ==
    [pc |-> pc, request |-> request, extension |-> c_otro.extension,
     resultado |-> resultado, upload_pdf |-> upload_pdf, response |-> response,
     tmp |-> tmp, nfiles |-> nfiles, calls |-> calls, emergency |-> emergency,
     in |-> c_in]

\* Lines 29-83: every name the handler assigns is a local of the call
Contexto ==
    [pc |-> pc, request |-> request, extension |-> extension,
     resultado |-> resultado, upload_pdf |-> upload_pdf, response |-> response,
     tmp |-> tmp, nfiles |-> nfiles, calls |-> calls, emergency |-> emergency,
     in |-> c_in]

\* The requests and strategy outcomes the two requests are drawn from
SolicitudesC ==
    {[has_file |-> FALSE, filename |-> NoName],
     [has_file |-> TRUE, filename |-> [stem |-> "a", dot |-> TRUE, ext |-> "pdf"]],
     [has_file |-> TRUE, filename |-> [stem |-> "a", dot |-> TRUE, ext |-> "txt"]]}

SalidasC == {Ret(<<"a">>), Ret(<<>>), Raise("Exception")}

OraculosC(ext) ==
    {o \in Oraculos(ext) :
        /\ o.unlink_ok
        /\ o.conv.native \in {"ok", "-"}
        /\ o.pdf_file \in SalidasC
        /\ o.pdf_conv \in {Ret(<<"a">>), Raise("Exception")}
        /\ o.txt \in {Ret(<<>>), Raise("Exception")}}

EmergOraculosC ==
    {eo \in EmergOraculos :
        /\ eo.unlink_ok
        /\ eo.conv.native \in {"ok", "-"}
        /\ eo.pdf \in {Ret(<<"a">>), Raise("Exception")}}

\* The other request is given the processor: the running call's locals are
\* put aside and the other call's are taken up; the shared objects stay
CCambiar ==
    /\ c_otro' = Contexto
    /\ c_turno' = 3 - c_turno
    /\ pc' = c_otro.pc
    /\ request' = c_otro.request
    /\ extension' = c_otro.extension
    /\ resultado' = c_otro.resultado
    /\ upload_pdf' = c_otro.upload_pdf
    /\ response' = c_otro.response
    /\ tmp' = c_otro.tmp
    /\ nfiles' = c_otro.nfiles
    /\ calls' = c_otro.calls
    /\ emergency' = c_otro.emergency
    /\ c_in' = c_otro.in
    /\ UNCHANGED c_env0
    /\ UNCHANGED <<envVars, planVars, convVars, pregVars, promptVars, legVars, aiVars>>

\* lines 35-76 for the running request
CRecibir ==
    /\ pc = "idle"
    /\ \E req \in SolicitudesC :
         /\ request' = req
         /\ IF Malformada(req)
            THEN /\ response' = ErrorHttp(400, "malformed request")
                 /\ pc' = "done"
                 /\ UNCHANGED <<extension, tmp, nfiles>>
            ELSE Guardar(req, TRUE)
    /\ UNCHANGED <<resultado, upload_pdf, calls, emergency>>
    /\ UNCHANGED concVars
    /\ UNCHANGED <<envVars, planVars, convVars, pregVars, promptVars, legVars, aiVars>>

\* line 83 for the running request
CProcesar ==
    /\ pc = "saved"
    /\ \E o \in OraculosC(extension) :
         /\ ProcesarEfecto(o, ProcesarArchivo(TempPath, extension, o, Hilo))
         /\ c_in' = [c_in EXCEPT !.o = o]
    /\ pc' = "processed"
    /\ UNCHANGED <<request, extension, response, emergency>>
    /\ UNCHANGED <<c_turno, c_otro, c_env0>>
    /\ UNCHANGED <<envVars, planVars, convVars, pregVars, promptVars, legVars, aiVars>>

\* lines 86-219 for the running request
CResponder ==
    /\ pc = "processed"
    /\ \E eo \in EmergOraculosC :
         /\ ResponderEfecto(Resto(resultado, extension, eo, Hilo))
         /\ c_in' = [c_in EXCEPT !.eo = eo]
    /\ pc' = "done"
    /\ UNCHANGED <<request, extension, resultado, upload_pdf>>
    /\ UNCHANGED <<c_turno, c_otro, c_env0>>
    /\ UNCHANGED <<envVars, planVars, convVars, pregVars, promptVars, legVars, aiVars>>

\* The running call has returned; the next request takes its place.
CSiguiente ==
    /\ pc = "done"
    /\ pc' = "idle"
    /\ request' = NoRequest
    /\ extension' = ""
    /\ resultado' = NoResultado
    /\ upload_pdf' = Unused
    /\ response' = NoResponse
    /\ tmp' = {}
    /\ nfiles' = 0
    /\ calls' = <<>>
    /\ emergency' = FALSE
    /\ c_in' = NoEntradas
    /\ UNCHANGED <<c_turno, c_otro, c_env0>>
    /\ UNCHANGED <<envVars, planVars, convVars, pregVars, promptVars, legVars, aiVars>>

InitConcurrente ==
    /\ libreoffice_path \in BOOLEAN
    /\ unoconv_path = FALSE
    /\ pdf_lib = "fitz"
    /\ ReqIdle
    /\ LegIdle
    /\ GemIdle
    /\ JsonNoInput
    /\ ExIdle
    /\ PregIdle
    /\ PromptIdle
    /\ ConcIdle
    /\ PlanIdle
    /\ ConvIdle

NextConcurrente == CCambiar \/ CRecibir \/ CProcesar \/ CResponder \/ CSiguiente

SpecConcurrente == InitConcurrente /\ [][NextConcurrente]_vars

-----------------------------------------------------------------------------
(* Properties *)

Range(s) == {s[i] : i \in DOMAIN s}

\* A strategy's outcome that is a text with something other than whitespace
Exitosa(out) == out.k = "ret" /\ Strip(out.t) # <<>>

\* A strategy's outcome that is a text of whitespace only, or ""
EnBlanco(out) == out.k = "ret" /\ Strip(out.t) = <<>>

NingunaExitosa == \A i \in 1..Len(calls) : ~Exitosa(calls[i].out)

BienFormada == request.has_file /\ request.filename # NoName

\* C1: once a strategy has returned a text that is not blank, no later
\* strategy is attempted, by procesar_archivo or by the handler: a
\* successful strategy is the last one of the request's trace.
C1_NoStrategyAfterText ==
    \A i \in 1..Len(calls) : Exitosa(calls[i].out) => i = Len(calls)

\* An image whose conversion failed and whose OCR gave a text: the request
\* ended there, without the emergency conversion.
C1_OcrStopsTheChain ==
    /\ pc = "done"
    /\ Len(calls) = 2
    /\ calls[1].st = "image_to_pdf" /\ ~Exitosa(calls[1].out)
    /\ calls[2].st = "image_ocr" /\ Exitosa(calls[2].out)
    /\ ~emergency
    /\ response.texto = calls[2].out.t

\* C2: procesar_archivo never raises: whatever the extension and whatever
\* its readers and converters do, it returns a dict with the fields texto,
\* caracteres, paginas, method and warnings.
C2_ProcesarArchivoTotal ==
    pc = "processed" =>
        /\ resultado.k = "ret"
        /\ DOMAIN resultado.d = {"texto", "caracteres", "paginas", "method", "warnings"}
        /\ resultado.d.method # "-"
        /\ resultado.d.caracteres \in Nat
        /\ resultado.d.paginas \in Nat

\* Every strategy raised, the last read as a PDF included, and a dict came
\* back all the same.
C2_AllRaisedStillDict ==
    /\ pc = "processed"
    /\ Len(calls) >= 2
    /\ \A i \in 1..Len(calls) : calls[i].out.k # "ret"
    /\ calls[Len(calls)].out.k = "raise"
    /\ resultado.k = "ret"
    /\ resultado.d.method = "failed"

\* C3: a conversion strategy that returned a blank text counts as failed
\* and the next strategy is tried: the OCR after an image's conversion, the
\* format's own reader after a document's conversion.
C3_BlankTextProceeds ==
    pc = "processed" =>
        \A i \in 1..Len(calls) :
            (calls[i].st \in {"image_to_pdf", "pdf_conversion"} /\ EnBlanco(calls[i].out))
                => i < Len(calls)

\* What the code says when nothing worked
NingunMetodo == {W_no_procesar, W_no_imagen, W_fallback_fallo, W_sin_texto}

\* C4: when every strategy failed, procesar_archivo returns an empty texto,
\* a method that names no strategy (`none`; the code's markers `failed`
\* and `image_failed` are let through here) and a warning that no method
\* worked.
C4_AllFailedGivesNone ==
    (pc = "processed" /\ NingunaExitosa) =>
        /\ resultado.k = "ret"
        /\ resultado.d.texto = <<>>
        /\ resultado.d.method \in {"none", "failed", "image_failed"}
        /\ Range(resultado.d.warnings) \cap NingunMetodo # {}

\* C5: an uploaded document from which no text could be extracted is
\* answered with HTTP 200, status success, an empty texto and a warning
\* that no text could be extracted, never with an error status.
C5_NoTextIsSuccess ==
    (pc = "done" /\ BienFormada /\ NingunaExitosa) =>
        /\ response.http = 200
        /\ response.status = "success"
        /\ response.texto = <<>>
        /\ W_sin_texto \in Range(response.warnings)

\* C6: a request without a file part, or whose file has an empty name, is
\* answered with HTTP 400 and status error; no temp file is created and
\* neither the processor nor the converter is called.
C6_MalformedIs400 ==
    (pc = "done" /\ ~BienFormada) =>
        /\ response.http = 400
        /\ response.status = "error"
        /\ nfiles = 0
        /\ tmp = {}
        /\ calls = <<>>
        /\ resultado = NoResultado
        /\ ~emergency

\* A file part with an empty name was refused.
C6_EmptyNameRefused ==
    /\ pc = "done"
    /\ request.has_file
    /\ request.filename = NoName
    /\ response.http = 400

\* The strategy attempted last in a request
UltimaEstrategia ==
    IF emergency THEN "emergency_pdf_conversion"
    ELSE IF calls = <<>> THEN "-"
    ELSE calls[Len(calls)].st

\* Strategy `method` returned `texto`
Produjo(method, texto) ==
    \E i \in 1..Len(calls) :
        /\ calls[i].out = Ret(texto)
        /\ \/ calls[i].st = method
           \/ (method = "emergency_pdf_conversion" /\ emergency /\ i = Len(calls))

\* C7: the method of a successful response names the strategy that
\* produced its texto when the texto is not empty, and the strategy that
\* was attempted last, the handler's emergency conversion included, when it
\* is empty (`failed` and `image_failed` stand for the last strategy of
\* their chains).
C7_MethodNamesStrategy ==
    (pc = "done" /\ response.status = "success" /\ calls # <<>>) =>
        IF response.texto # <<>>
        THEN Produjo(response.method, response.texto)
        ELSE \/ response.method = UltimaEstrategia
             \/ (response.method = "failed" /\ UltimaEstrategia = "fallback_pdf")
             \/ (response.method = "image_failed" /\ UltimaEstrategia = "image_ocr")

\* The warnings the code gives for a strategy that failed
AvisosDeFallo ==
    {W_no_imagen, W_convertido_tras_error, W_no_convertir, W_no_procesar,
     W_tras_error, W_error, W_fallback_fallo, W_no_instalado, W_directa_fallo,
     W_pdf_generico}

\* C8: the warnings of procesar_archivo's result hold one entry for every
\* strategy that failed before the returned one: at least as many failure
\* warnings as strategies that came before the last.
C8_WarningPerFailedStrategy ==
    (pc = "processed" /\ resultado.k = "ret" /\ calls # <<>>) =>
        Len(SelectSeq(resultado.d.warnings, LAMBDA w : w \in AvisosDeFallo))
            >= Len(calls) - 1

\* C9: leer_ppt_antiguo, leer_doc_antiguo, leer_xls_antiguo, ocr_fallback
\* and ocr_agresivo catch every exception and return a string.
C9_LegacyReadersNeverRaise ==
    leg_pc = "done" => leg_result.k = "ret"

\* C10: once the upload's temp file has been created, it no longer exists
\* when the handler returns, by whichever path.
C10_TempFileRemoved ==
    (pc = "done" /\ nfiles >= 1) => TempPath \notin tmp

\* C11: every temp file made for an intermediate conversion (the PDF of
\* convertir_a_pdf, in the processor or in the emergency conversion, and
\* the output file of a conversion method that failed or timed out) is
\* gone when the request completes: only the upload's own file may be
\* left to account for.
C11_IntermediateFilesRemoved ==
    pc = "done" => tmp \ {TempPath} = {}

\* C12: caracteres is the length of texto, in every result of
\* procesar_archivo and in every success response.
C12_CaracteresIsLength ==
    /\ (pc \in {"processed", "done"} /\ resultado.k = "ret")
            => resultado.d.caracteres = Len(resultado.d.texto)
    /\ (pc = "done" /\ response.status = "success")
            => response.caracteres = Len(response.texto)

\* A padded text read from a converted PDF went out with its length.
C12_PaddedTextCounted ==
    /\ pc = "done"
    /\ response.status = "success"
    /\ response.texto = <<SP, "a">>
    /\ response.caracteres = 2
    /\ response.method = "pdf_conversion"

\* An attempt that met HTTP 200 and an envelope holding a text
ConTexto(o) == o.status = 200 /\ o.body \in {"text", "empty"}

\* An attempt that met HTTP 200 and an envelope holding a non-empty text
ConTextoNoVacio(o) == o.status = 200 /\ o.body = "text"

\* At most `retries` requests, one at a time
UnoTrasOtro ==
    /\ g_posts <= g_retries
    /\ g_posts - Len(g_trace) = (IF g_pc = "waiting" THEN 1 ELSE 0)

\* C13, as stated: one call of call_gemini (retry variants) makes at most
\* `retries` requests, one after another, and the first attempt that meets
\* HTTP 200 with an extractable text, the empty string included, is the
\* last one, and its text is what the call returns.
C13_StopsAtFirstText ==
    g_variant \in {1, 2} =>
        /\ UnoTrasOtro
        /\ \A i \in 1..Len(g_trace) :
              ConTexto(g_trace[i]) =>
                  /\ i = Len(g_trace) /\ g_posts = i /\ g_pc = "done"
                  /\ g_result = TextoDe(g_trace[i].body)

\* C13, amended: the same, for the first attempt that meets HTTP 200 with
\* a text that is not empty.
C13_StopsAtFirstNonEmptyText ==
    g_variant \in {1, 2} =>
        /\ UnoTrasOtro
        /\ \A i \in 1..Len(g_trace) :
              ConTextoNoVacio(g_trace[i]) =>
                  /\ i = Len(g_trace) /\ g_posts = i /\ g_pc = "done"
                  /\ g_result = PyStr(GeminiTexto)

\* The first attempt failed, the second met a text, and a third was allowed
\* but not made.
C13_SecondAttemptReturns ==
    /\ g_variant = 2
    /\ g_retries = MaxRetries
    /\ g_pc = "done"
    /\ Len(g_trace) = 2
    /\ ~ConTexto(g_trace[1])
    /\ ConTextoNoVacio(g_trace[2])
    /\ g_posts = 2
    /\ g_result = PyStr(GeminiTexto)

\* An attempt that gave the caller nothing
Fallido(o) == ~ConTexto(o)

\* C14: with the key configured, a failed attempt (non-200, malformed
\* envelope, unparseable body, transport error, timeout) never raises to
\* the caller; it is followed by the next attempt until the limit, and a
\* call whose attempts all failed made `retries` of them and returns None.
C14_FailuresRetriedThenNone ==
    (g_variant \in {1, 2} /\ g_key = "set" /\ g_pc = "done") =>
        /\ g_result.k # "raise"
        /\ (\A i \in 1..Len(g_trace) : Fallido(g_trace[i])) =>
              (Len(g_trace) = g_retries /\ g_result = PyNone)

\* What a call with the key configured gives when it got no text
FallosDeLlamada(variant) ==
    {PyNone} \cup
    {Intento(variant, o).val : o \in {e \in Encuentros \cup {TimeoutAgotado} :
        Intento(variant, e).fin /\ Intento(variant, e).val.k \notin {"str", "dict_success"}}}

\* C15: without an API key call_gemini reports a configuration error that
\* no failed call gives, before any request and without retry or backoff.
C15_MissingKeyIsDistinctError ==
    (g_pc = "done" /\ g_key # "set") =>
        /\ g_result.k \in {"raise", "dict_error"}
        /\ g_result \notin FallosDeLlamada(g_variant)
        /\ g_posts = 0
        /\ g_sleeps = 0
        /\ g_trace = <<>>

\* The third variant, with an empty key, answered with its error dict.
C15_EmptyKeyRefused ==
    /\ g_pc = "done"
    /\ g_key = "empty"
    /\ g_variant = 3
    /\ g_result.k = "dict_error"
    /\ g_posts = 0

\* C16: every request carries a timeout, so every call of call_gemini, in
\* each variant, ends: a request that was issued leads to the call's
\* return, even if the server never answers.
C16_EveryCallEnds ==
    (g_pc = "waiting") ~> (g_pc = "done")

\* pat occurs in t
MarcaEn(t, pat) ==
    \E i \in 1..(Len(t) - Len(pat) + 1) : SubSeq(t, i, i + Len(pat) - 1) = pat

Apariciones(t, c) == {i \in DOMAIN t : t[i] = c}

\* r is "[]" if c lacks a "[" or a "]", and otherwise what c holds from its
\* first "[" through its last "]"
DesdeHasta(c, r) ==
    IF Apariciones(c, "[") = {} \/ Apariciones(c, "]") = {}
    THEN r = <<"[", "]">>
    ELSE \E a \in Apariciones(c, "["), b \in Apariciones(c, "]") :
            /\ \A k \in Apariciones(c, "[") : a <= k
            /\ \A k \in Apariciones(c, "]") : k <= b
            /\ r = SubSeq(c, a, b)

\* C17: extract_clean_json gives "[]" for an empty or absent input;
\* otherwise the text it cuts holds no ```json or ``` marker any more, and
\* it returns "[]" if that text lacks a "[" or a "]" and else the part from
\* the first "[" through the last "]".
C17_ExtractCleanJson ==
    j_op = "extract" =>
        IF j_in = Ausente \/ j_in = <<>> THEN j_texto = <<"[", "]">>
        ELSE /\ ~MarcaEn(SinMarcas(j_variant, j_in), Fence)
             /\ DesdeHasta(SinMarcas(j_variant, j_in), j_texto)

\* A fenced array of two questions came out as the array alone.
C17_FencedArrayExtracted ==
    /\ j_op = "extract"
    /\ j_in = Envolver(<<"[">> \o Pregunta \o <<",", SP>> \o Pregunta \o <<"]">>)
    /\ j_texto = <<"[">> \o Pregunta \o <<",", SP>> \o Pregunta \o <<"]">>

\* C18: a well-formed array of question objects, once fenced with
\* ```json ... ``` or once deprived of its one trailing "]", still goes
\* through extract_clean_json, fix_json and json.loads to the array itself.
C18_FencedOrTruncatedSameArray ==
    \A a \in Arreglos :
        (j_op = "leer" /\ j_variant = 2 /\ j_in \in {Envolver(a), SinCierre(a)})
            => j_parsed = Parsed(SelectSeq(a, LAMBDA c : ~IsSpace(c)))

Faltan(t) ==
    IF Cardinality(Apariciones(t, "[")) > Cardinality(Apariciones(t, "]"))
    THEN Cardinality(Apariciones(t, "[")) - Cardinality(Apariciones(t, "]"))
    ELSE 0

\* C19: fix_json returns its input without the characters outside the
\* basic multilingual plane, followed by max(0, opens - closes) "]"; the
\* output never has more "[" than "]", and an input that needs neither is
\* returned as it is.
C19_FixJsonBalances ==
    j_op = "fix" =>
        /\ j_texto = SelectSeq(j_in, LAMBDA c : c # AST)
                        \o [i \in 1..Faltan(SelectSeq(j_in, LAMBDA c : c # AST)) |-> "]"]
        /\ Cardinality(Apariciones(j_texto, "[")) <= Cardinality(Apariciones(j_texto, "]"))
        /\ (Faltan(j_in) = 0 /\ Apariciones(j_in, AST) = {}) => j_texto = j_in

\* Two brackets were missing after the astral character went.
C19_TwoBracketsAppended ==
    /\ j_op = "fix"
    /\ j_in = <<"[", AST, "[", "q">>
    /\ j_texto = <<"[", "[", "q", "]", "]">>

\* The block's LLM call gave no result, or its response did not parse
SinResultado(variant, e) ==
    \/ e.out.k = "None"
    \/ (e.out.k = "str" /\ ~LeerRespuesta(variant, e.raw).ok)

\* C20: in generar_examen a block whose LLM call gave no result, or whose
\* response did not parse as JSON, adds no question to the exam and does
\* not end it: the next block, if there is one, is taken.
C20_FailedBlockContributesNothing ==
    \A i \in 1..Len(e_log) :
        SinResultado(e_variant, e_log[i]) =>
            /\ \A j \in 1..Len(e_todo) : e_todo[j] # i
            /\ e_result # "raise" \/ Len(e_log) > i
            /\ (e_pc = "done" /\ i < e_n) => Len(e_log) > i

\* The first block's response did not parse, the second gave two
\* questions, and the exam holds exactly those.
C20_SecondBlockStillCounted ==
    /\ e_pc = "done"
    /\ e_result = "list"
    /\ e_variant = 2
    /\ Len(e_log) = 2
    /\ e_log[1].out.k = "str" /\ ~LeerRespuesta(2, e_log[1].raw).ok
    /\ e_todo = <<2, 2>>

\* The element of the current turn has been through normalize_question
Normalizada == p_pc \in {"if", "raised", "for", "done"} /\ p_k > 0

\* The values of a question moved from each set of keys to the other
OtrasClaves(raw) ==
    VDict([texto |-> raw.v.pregunta, pregunta |-> raw.v.texto,
           alternativas |-> raw.v.opciones, opciones |-> raw.v.alternativas,
           correcta |-> raw.v.respuesta_correcta,
           respuesta_correcta |-> raw.v.correcta])

\* The question has keys of one set only
DeUnSoloJuego(raw) ==
    /\ raw.t = "dict"
    /\ \/ raw.v.texto = VNone /\ raw.v.alternativas = VNone /\ raw.v.correcta = VNone
       \/ raw.v.pregunta = VNone /\ raw.v.opciones = VNone
          /\ raw.v.respuesta_correcta = VNone

ConCredenciales == \A i \in 1..Len(e_log) : e_log[i].out.k # "raise"

\* C21: with the API key configured, generar_examen never ends by raising:
\* whatever goes wrong with one block's response is kept inside that block.
C21_NoResponseErrorEscapes ==
    ConCredenciales => e_result # "raise"

\* A value that is absent or empty
Vacio(x) == x \in {VNone, VStr(<<>>), VList(<<>>)}

\* The raw question has no question text, no options or no answer letter
\* under either key
Falta(raw) ==
    /\ raw.t = "dict"
    /\ \/ Vacio(raw.v.texto) /\ Vacio(raw.v.pregunta)
       \/ Vacio(raw.v.alternativas) /\ Vacio(raw.v.opciones)
       \/ Vacio(raw.v.correcta) /\ Vacio(raw.v.respuesta_correcta)

\* C23: for a raw question whose text, options or answer letter is absent
\* or empty, normalize_question gives None and raises nothing, the question
\* is not shuffled and nothing is added for it to the list of the exam.
C23_IncompleteQuestionDropped ==
    (Normalizada /\ Falta(p_raw)) =>
        /\ p_qn = QNone
        /\ p_q = NoOutcome
        /\ p_pc # "raised"
        /\ Len(p_final) < p_k
        /\ Len(p_todo) < p_k

\* A question with an empty answer letter was dropped and the exam
\* returned without it.
C23_EmptyAnswerLeftOut ==
    /\ p_pc = "done"
    /\ p_raw = ConTextoAlternativas(VStr(<<"q", SP>>), L4, VStr(<<>>))
    /\ p_qn = QNone
    /\ p_todo = <<>>

\* The position a letter stands for: a = 1 .. d = 4, 0 for anything else
Posicion(c) ==
    CASE c = VStr(<<"a">>) -> 1 [] c = VStr(<<"b">>) -> 2
      [] c = VStr(<<"c">>) -> 3 [] c = VStr(<<"d">>) -> 4 [] OTHER -> 0

Letras == <<"a", "b", "c", "d">>

\* Four options labelled a) to d) in order, and a letter among them
CuatroEnOrden(q) ==
    /\ q.alternativas.t = "list"
    /\ Len(q.alternativas.v) = 4
    /\ \A i \in 1..4 :
         /\ q.alternativas.v[i].t = "str"
         /\ StartsWith(q.alternativas.v[i].v, <<Letras[i], ")", SP>>)
    /\ Posicion(q.correcta) \in 1..4

\* C24: after shuffle_alternatives the option at the position correcta
\* stands for is the option that was at the position correcta stood for
\* before the shuffle, whatever order the shuffle chose.
C24_CorrectaFollowsTheShuffle ==
    (p_q.k = "ret" /\ CuatroEnOrden(p_qn.q)) =>
        /\ Posicion(p_q.q.correcta) \in 1..4
        /\ p_q.q.alternativas.v[Posicion(p_q.q.correcta)]
               = p_qn.q.alternativas.v[Posicion(p_qn.q.correcta)]

\* C25: every question of the list generar_examen returns has correcta
\* equal to one of the letters a, b, c and d.
C25_CorrectaIsALetter ==
    (p_pc = "done") =>
        \A i \in DOMAIN p_todo : Posicion(p_todo[i].correcta) \in 1..4

\* An option that begins with a letter and ") "
Etiquetada(opt) ==
    /\ opt.t = "str"
    /\ Len(opt.v) >= 3
    /\ LowerChar(opt.v[1]) \in Range(Letras)
    /\ opt.v[2] = ")"
    /\ opt.v[3] = SP

\* C26: every question of the list generar_examen returns has exactly four
\* alternatives, each a string that begins with a letter and ") ".
C26_FourLabelledAlternatives ==
    (p_pc = "done") =>
        \A i \in DOMAIN p_todo :
            /\ p_todo[i].alternativas.t = "list"
            /\ Len(p_todo[i].alternativas.v) = 4
            /\ \A j \in 1..4 : Etiquetada(p_todo[i].alternativas.v[j])

\* C27: every question of the list generar_examen returns has a texto that
\* is not empty.
C27_TextoNotEmpty ==
    (p_pc = "done") =>
        \A i \in DOMAIN p_todo : p_todo[i].texto # <<>>

\* The lists the blocks of log gave, from block i on, one after another
RECURSIVE EnOrden(_, _)
EnOrden(log, i) ==
    IF i > Len(log) THEN <<>>
    ELSE [j \in 1..log[i].r.n |-> i] \o EnOrden(log, i + 1)

\* C28: generar_examen runs the per-block generation once for each block,
\* in index order, with block number i counted from 1 and the number of
\* blocks as total; the list it returns is the blocks' lists one after
\* another in block order, nothing dropped and nothing moved.
C28_BlocksInOrderConcatenated ==
    /\ \A i \in 1..Len(e_log) :
         /\ e_log[i].block_num = i
         /\ e_log[i].total_blocks = e_n
    /\ (e_pc = "loop") => Len(e_log) = e_i - 1
    /\ (e_result # "raise") => e_todo = EnOrden(e_log, 1)
    /\ (e_result = "list") => Len(e_log) = e_n

\* Two blocks, the first gave one question and the second two, and the
\* exam returned the three in that order.
C28_OneThenTwoQuestions ==
    /\ e_pc = "done"
    /\ e_result = "list"
    /\ e_n = 2
    /\ e_log[1].r.n = 1
    /\ e_log[2].r.n = 2
    /\ e_todo = <<1, 2, 2>>

\* s stands in t, unbroken
Contiene(t, s) ==
    \E i \in 0..(Len(t) - Len(s)) : SubSeq(t, i + 1, i + Len(s)) = s

\* C29: the prompt build_prompt returns is the one its arguments determine,
\* and it holds the block's number, the number of blocks and the target as
\* written in decimal, and the block text unchanged.
C29_PromptHoldsItsArguments ==
    (b_pc = "done") =>
        /\ b_prompt = BuildPrompt(b_variant, b_args.bloque, b_args.num,
                                  b_args.total, b_args.preguntas)
        /\ Contiene(b_prompt, Decimal(b_args.num))
        /\ Contiene(b_prompt, Decimal(b_args.total))
        /\ Contiene(b_prompt, Decimal(b_args.preguntas))
        /\ Contiene(b_prompt, b_args.bloque)

\* What procesar_archivo gives the request req, alone in the process, for
\* the strategy outcomes o
SoloProcesar(req, o) ==
    ProcesarArchivo(TempPath, ExtensionDe(req.filename), o,
                    [tmp |-> {TempPath}, n |-> 1, calls |-> <<>>, conv |-> <<>>])

\* The response the handler builds from that result r for the outcomes eo
SoloResponder(req, eo, r) ==
    Resto([k |-> r.k, d |-> r.d, exc |-> r.exc], ExtensionDe(req.filename), eo, r.h)

\* C30: with two /procesar requests interleaved in one process, the shared
\* DocumentProcessor and PDFConverter stay as __init__ left them, and what
\* a request holds at each step (the result of procesar_archivo, then the
\* response with its texto, method and warnings) is what the same file and
\* the same strategy outcomes give a request handled alone.
C30_RequestsDoNotInterfere ==
    /\ <<libreoffice_path, unoconv_path, pdf_lib>> = c_env0
    /\ (pc \in {"saved", "processed", "done"} /\ ~Malformada(request)) =>
           extension = ExtensionDe(request.filename)
    /\ (pc \in {"processed", "done"} /\ ~Malformada(request)) =>
           /\ upload_pdf = c_in.o.pdf_file
           /\ resultado.k = SoloProcesar(request, c_in.o).k
           /\ resultado.d = SoloProcesar(request, c_in.o).d
    /\ (pc = "done" /\ ~Malformada(request)) =>
           response = SoloResponder(request, c_in.eo,
                                    SoloProcesar(request, c_in.o)).resp

\* The second request was answered with its text while the first, whose
\* procesar_archivo found no text, is still before its response.
C30_AnsweredWhileOtherInFlight ==
    /\ c_turno = 2
    /\ pc = "done"
    /\ response.http = 200
    /\ response.texto = <<"a">>
    /\ c_otro.pc = "processed"
    /\ c_otro.request # request
    /\ c_otro.resultado.k = "ret"
    /\ c_otro.resultado.d.texto = <<>>

-----------------------------------------------------------------------------
(* The block splitter and the per-block planner.  ai_service imports them
   from document_processor ("Division en bloques (ahora viene desde
   document_processor)"), whose file here does not hold them; they are
   taken from the specification's sections 4.2 and 4.3. *)

\* max_size, 2000 characters in section 4.2, scaled to the texts below
max_size == 3

\* The tail-merge threshold, 300 characters in section 4.2, scaled likewise
TailMin == 2

\* Lines of a text given to the splitter, at most
MaxLineas == 5

\* The text's newline-delimited lines, in order
RECURSIVE SplitLinesDesde(_, _)
SplitLinesDesde(t, linea) ==
    IF t = <<>> THEN <<linea>>
    ELSE IF Head(t) = NL
         THEN <<linea>> \o SplitLinesDesde(Tail(t), <<>>)
         ELSE SplitLinesDesde(Tail(t), Append(linea, Head(t)))

SplitLines(t) == SplitLinesDesde(t, <<>>)

\* Close the current block: trim, append to the output list
Cerrar(bloques, buffer) == Append(bloques, Strip(buffer))

\* The loop over the lines and the step after it: a line that would push
\* the buffer over max_size closes the block and starts the next buffer;
\* any other line is appended after a space; the buffer left at the end is
\* a block when it is not empty after trimming.
RECURSIVE Acumular(_, _, _)
Acumular(lineas, buffer, bloques) ==
    IF lineas = <<>>
    THEN IF Strip(buffer) # <<>> THEN Cerrar(bloques, buffer) ELSE bloques
    ELSE IF Len(buffer) + Len(Head(lineas)) > max_size
         THEN Acumular(Tail(lineas), Head(lineas), Cerrar(bloques, buffer))
         ELSE Acumular(Tail(lineas), buffer \o <<SP>> \o Head(lineas), bloques)

\* The line-accumulating split, before the post-processing
Naive(texto) == Acumular(SplitLines(texto), <<>>, <<>>)

\* The test with the signature's unused min_size (1200, four times the
\* threshold) in place of the hardcoded threshold
HayColaCortaMinSize(bloques) ==
    Len(bloques) >= 2 /\ Len(Strip(bloques[Len(bloques)])) < 4 * TailMin

\* Whether the post-processing merges: two blocks or more and a short last
HayColaCorta(bloques) ==
    Len(bloques) >= 2 /\ Len(Strip(bloques[Len(bloques)])) < TailMin

\* A post-processing that merges the last block whatever its length
TailMergeSiempre(bloques) ==
    IF Len(bloques) >= 2
    THEN Append(SubSeq(bloques, 1, Len(bloques) - 2),
                bloques[Len(bloques) - 1] \o <<SP>> \o bloques[Len(bloques)])
    ELSE bloques

\* A post-processing that drops the short last block instead of merging it
TailMergeSoltando(bloques) ==
    IF HayColaCorta(bloques) THEN SubSeq(bloques, 1, Len(bloques) - 1)
    ELSE bloques

\* Post-process: a short last block is merged into the second-to-last
TailMerge(bloques) ==
    IF HayColaCorta(bloques)
    THEN Append(SubSeq(bloques, 1, Len(bloques) - 2),
                bloques[Len(bloques) - 1] \o <<SP>> \o bloques[Len(bloques)])
    ELSE bloques

\* The block splitter
Dividir(texto) == TailMerge(Naive(texto))

\* An argument of the planner: an integer, or something that is no number
VInt(n) == [t |-> "int", v |-> n]

\* Block counts given to the planner, at most
MaxTotal == 201

\* A planner that divides by total_blocks itself: no blocks is a division
\* by zero and the default, a negative count a negative quotient clamped
PlannerSinGuarda(total_blocks) ==
    IF total_blocks.t # "int" \/ total_blocks.v <= 0 THEN 8
    ELSE IF 200 \div total_blocks.v > 25 THEN 25
         ELSE IF 200 \div total_blocks.v < 8 THEN 8
              ELSE 200 \div total_blocks.v

\* A planner without the lower clamp
PlannerSinMinimo(total_blocks) ==
    IF total_blocks.t # "int" THEN 8
    ELSE IF 200 \div (IF total_blocks.v > 1 THEN total_blocks.v ELSE 1) > 25
         THEN 25
         ELSE 200 \div (IF total_blocks.v > 1 THEN total_blocks.v ELSE 1)

\* The planner: floor(200 / max(1, total_blocks)) clamped to [8, 25], and
\* 8 on a computation failure
Planner(total_blocks) ==
    IF total_blocks.t # "int" THEN 8
    ELSE IF 200 \div (IF total_blocks.v > 1 THEN total_blocks.v ELSE 1) > 25
         THEN 25
         ELSE IF 200 \div (IF total_blocks.v > 1 THEN total_blocks.v ELSE 1) < 8
              THEN 8
              ELSE 200 \div (IF total_blocks.v > 1 THEN total_blocks.v ELSE 1)

\* The lines of the input texts: empty, blank, short, padded, and one
\* longer than max_size
LineasDeEntrada ==
    {<<>>, <<SP>>, <<"x">>, <<"y">>, <<"x", "y">>, <<SP, "x">>,
     <<"x", SP, "y", "x">>}

\* Lines joined by newlines
RECURSIVE UnirLineas(_)
UnirLineas(ls) ==
    IF Len(ls) = 1 THEN Head(ls) ELSE Head(ls) \o <<NL>> \o UnirLineas(Tail(ls))

TextosDeEntrada ==
    {UnirLineas(ls) : ls \in UNION {[1..m -> LineasDeEntrada] : m \in 1..MaxLineas}}

TotalesDeEntrada == {VInt(n) : n \in -3..MaxTotal} \cup {VStr(<<"x">>), VNone}

\* The splitter is given a text and returns its blocks
SDividir ==
    /\ s_pc = "idle"
    /\ \E texto \in TextosDeEntrada :
          /\ s_texto' = texto
          /\ s_bloques' = Dividir(texto)
    /\ s_pc' = "split"
    /\ UNCHANGED <<s_n, s_meta>>
    /\ UNCHANGED <<envVars, convVars, pregVars, promptVars, concVars, reqVars, legVars, aiVars>>

\* The planner is given a block count and returns the per-block target
SPlanificar ==
    /\ s_pc = "idle"
    /\ \E total \in TotalesDeEntrada :
          /\ s_n' = total
          /\ s_meta' = Planner(total)
    /\ s_pc' = "planned"
    /\ UNCHANGED <<s_texto, s_bloques>>
    /\ UNCHANGED <<envVars, convVars, pregVars, promptVars, concVars, reqVars, legVars, aiVars>>

\* The next call; nothing of the last one is kept.
SSiguiente ==
    /\ s_pc # "idle"
    /\ s_pc' = "idle"
    /\ s_texto' = <<>>
    /\ s_bloques' = <<>>
    /\ s_n' = VNone
    /\ s_meta' = 0
    /\ UNCHANGED <<envVars, convVars, pregVars, promptVars, concVars, reqVars, legVars, aiVars>>

InitPlan ==
    /\ libreoffice_path = FALSE
    /\ unoconv_path = FALSE
    /\ pdf_lib = "fitz"
    /\ ReqIdle
    /\ LegIdle
    /\ GemIdle
    /\ JsonNoInput
    /\ ExIdle
    /\ PregIdle
    /\ PromptIdle
    /\ ConcIdle
    /\ PlanIdle
    /\ ConvIdle

NextPlan == SDividir \/ SPlanificar \/ SSiguiente

SpecPlan == InitPlan /\ [][NextPlan]_vars

-----------------------------------------------------------------------------
(* pdf_converter.py: convertir_a_pdf called on a file *)

\* The `extension` arguments convertir_a_pdf is called with
ExtensionesConv == {"pdf", "PDF", "pdf ", "txt", "csv", "png", "docx", "doc", ""}

KEfecto(ext, c, r) ==
    /\ k_ext' = ext
    /\ k_c' = c
    /\ k_res' = [ok |-> r.ok, path |-> r.path]
    /\ k_intentos' = r.h.conv
    /\ k_tmp' = r.h.tmp

\* convertir_a_pdf(file_path, extension) is called on the file TempPath and
\* returns
KConvertir ==
    /\ k_pc = "idle"
    /\ \E ext \in ExtensionesConv, ul \in BOOLEAN :
          \E c \in ConvOuts(StripExt(LowerExt(ext))) :
             KEfecto(ext, c,
                     ConvertirAPdf(TempPath, ext, c, ul,
                                   [tmp |-> {TempPath}, n |-> 1,
                                    calls |-> <<>>, conv |-> <<>>]))
    /\ k_pc' = "done"
    /\ UNCHANGED <<envVars, planVars, pregVars, promptVars, concVars, reqVars, legVars, aiVars>>

\* The next call; nothing of the last one is kept.
KSiguiente ==
    /\ k_pc = "done"
    /\ k_pc' = "idle"
    /\ k_ext' = ""
    /\ k_c' = NoConv
    /\ k_res' = [ok |-> FALSE, path |-> NoPdf]
    /\ k_intentos' = <<>>
    /\ k_tmp' = {}
    /\ UNCHANGED <<envVars, planVars, pregVars, promptVars, concVars, reqVars, legVars, aiVars>>

InitConvertir ==
    /\ libreoffice_path \in BOOLEAN
    /\ unoconv_path \in BOOLEAN
    /\ pdf_lib = "fitz"
    /\ ReqIdle
    /\ LegIdle
    /\ GemIdle
    /\ JsonNoInput
    /\ ExIdle
    /\ PregIdle
    /\ PromptIdle
    /\ ConcIdle
    /\ PlanIdle
    /\ ConvIdle

NextConvertir == KConvertir \/ KSiguiente

SpecConvertir == InitConvertir /\ [][NextConvertir]_vars

-----------------------------------------------------------------------------
(* Properties of the block splitter and of the planner *)

\* The length of the longest of the lines
RECURSIVE LargoMayor(_)
LargoMayor(lineas) ==
    IF lineas = <<>> THEN 0
    ELSE IF Len(Head(lineas)) > LargoMayor(Tail(lineas))
         THEN Len(Head(lineas)) ELSE LargoMayor(Tail(lineas))

Comienza(b, p) == Len(p) <= Len(b) /\ SubSeq(b, 1, Len(p)) = p
Termina(b, q) == Len(q) <= Len(b) /\ SubSeq(b, Len(b) - Len(q) + 1, Len(b)) = q

\* What C32 asks of the blocks given the naive split of the same text
TrasLaCola(bloques, naive) ==
    IF Len(naive) >= 2 /\ Len(Strip(naive[Len(naive)])) < TailMin
    THEN /\ Len(bloques) = Len(naive) - 1
         /\ SubSeq(bloques, 1, Len(naive) - 2) = SubSeq(naive, 1, Len(naive) - 2)
         /\ Comienza(bloques[Len(bloques)], naive[Len(naive) - 1])
         /\ Termina(bloques[Len(bloques)], naive[Len(naive)])
         /\ Len(bloques[Len(bloques)]) >=
                Len(naive[Len(naive) - 1]) + Len(naive[Len(naive)])
    ELSE bloques = naive

\* C32: when the line-accumulating split gives two blocks or more and its
\* last block is shorter than the threshold after trimming, the splitter
\* returns one block fewer, the last merged into the second-to-last and
\* the blocks before them unchanged; otherwise it returns the
\* line-accumulating split itself.
C32_TailMergeDropsExactlyOne ==
    s_pc = "split" => TrasLaCola(s_bloques, Naive(s_texto))

\* Three naive blocks with a short last one became two.
C32_ThreeBlocksBecameTwo ==
    /\ s_pc = "split"
    /\ Len(Naive(s_texto)) = 3
    /\ Len(Naive(s_texto)[3]) < TailMin
    /\ Len(s_bloques) = 2

\* The words of a text: its runs of characters other than spaces and
\* newlines, in order
RECURSIVE PalabrasDesde(_, _)
PalabrasDesde(t, palabra) ==
    IF t = <<>> THEN (IF palabra = <<>> THEN <<>> ELSE <<palabra>>)
    ELSE IF IsSpace(Head(t))
         THEN (IF palabra = <<>> THEN <<>> ELSE <<palabra>>)
              \o PalabrasDesde(Tail(t), <<>>)
         ELSE PalabrasDesde(Tail(t), Append(palabra, Head(t)))

Palabras(t) == PalabrasDesde(t, <<>>)

\* The lines that are not empty after trimming, trimmed, in order, one
\* space between them
RECURSIVE LineasNoVacias(_)
LineasNoVacias(lineas) ==
    IF lineas = <<>> THEN <<>>
    ELSE IF Strip(Head(lineas)) = <<>> THEN LineasNoVacias(Tail(lineas))
         ELSE Strip(Head(lineas)) \o <<SP>> \o LineasNoVacias(Tail(lineas))

\* The blocks in order, one space between them
RECURSIVE UnirBloques(_)
UnirBloques(bloques) ==
    IF bloques = <<>> THEN <<>>
    ELSE Head(bloques) \o <<SP>> \o UnirBloques(Tail(bloques))

Cociente(n) == CHOOSE q \in 0..200 : q * n <= 200 /\ 200 < (q + 1) * n

\* C34: for a block count n >= 1 the planner returns
\* min(25, max(8, floor(200 / n))), a value within [8, 25]; it returns 25
\* for 8 blocks, 8 for 25 blocks and 8 for 200 blocks.
C34_TargetIsTheClampedQuotient ==
    (s_pc = "planned" /\ s_n.t = "int" /\ s_n.v >= 1) =>
        /\ s_meta \in 8..25
        /\ s_meta = (IF Cociente(s_n.v) < 8 THEN 8
                     ELSE IF Cociente(s_n.v) > 25 THEN 25
                     ELSE Cociente(s_n.v))
        /\ s_n.v = 8 => s_meta = 25
        /\ s_n.v = 25 => s_meta = 8
        /\ s_n.v = 200 => s_meta = 8

\* The planner was asked for 200 blocks and answered 8.
C34_TwoHundredBlocksGiveEight ==
    /\ s_pc = "planned"
    /\ s_n = VInt(200)
    /\ s_meta = 8

-----------------------------------------------------------------------------
(* Properties of convertir_a_pdf *)

\* The conversion methods that apply to a file of extension e: the native
\* one for text and images, LibreOffice and unoconv where detected
MetodosAplicables(e) ==
    (IF e \in FormatosTexto \cup FormatosImagen THEN {"native"} ELSE {})
    \cup (IF libreoffice_path THEN {"libreoffice"} ELSE {})
    \cup (IF unoconv_path THEN {"unoconv"} ELSE {})

\* Whether method m makes a PDF of the file, by the outcomes c
ExitoDe(m, c) ==
    \/ m = "native" /\ c.native = "ok"
    \/ m = "libreoffice" /\ c.lo = "ok"
    \/ m = "unoconv" /\ c.uno = "ok"

OrdenDe(m) == CASE m = "native" -> 1 [] m = "libreoffice" -> 2 [] OTHER -> 3

\* Where method m is first called in the trace t (0 when it never is)
PrimeraLlamada(t, m) ==
    IF \E i \in 1..Len(t) : t[i] = m
    THEN CHOOSE i \in 1..Len(t) : t[i] = m /\ \A j \in 1..(i - 1) : t[j] # m
    ELSE 0

-----------------------------------------------------------------------------
(* Properties of the handler's emergency conversion *)

\* Where the handler's emergency conversions stand in the strategy trace
Emergencias == {i \in 1..Len(calls) : calls[i].st = "emergency_pdf_conversion"}

\* C37: a request gets at most one emergency conversion, and gets it only
\* when procesar_archivo returned a text that is empty after trimming and
\* the extension is neither empty nor 'pdf'; when the converted PDF then
\* gives a text that is not blank, the response carries that text under
\* the method "emergency_pdf_conversion" with the warnings of the converted
\* PDF's result (the notice of the library that read it, if any) followed
\* by the emergency notice, and no other response has that method.
C37_EmergencyOnceAndOnlyWithoutText ==
    (pc = "done" /\ ~Malformada(request)) =>
        /\ Cardinality(Emergencias) <= 1
        /\ emergency <=> Emergencias # {}
        /\ emergency =>
               /\ resultado.k = "ret"
               /\ Strip(resultado.d.texto) = <<>>
               /\ extension # ""
               /\ extension # "pdf"
        /\ (/\ emergency
            /\ calls[Len(calls)].st # "emergency_pdf_conversion"
            /\ calls[Len(calls)].out.k = "ret"
            /\ Strip(calls[Len(calls)].out.t) # <<>>) =>
               /\ response.method = "emergency_pdf_conversion"
               /\ response.texto = calls[Len(calls)].out.t
        /\ response.method = "emergency_pdf_conversion" =>
               /\ emergency
               /\ Strip(response.texto) # <<>>
               /\ response.warnings = Append(AvisoLibreria(<<>>), W_emergencia)

\* The processor gave a text file's blank text, and the emergency
\* conversion's PDF, read with pdfplumber, gave the text of the response.
C37_BlankTextRecoveredByEmergency ==
    /\ pc = "done"
    /\ extension = "txt"
    /\ resultado.k = "ret"
    /\ resultado.d.texto = <<SP>>
    /\ emergency
    /\ pdf_lib = "pdfplumber"
    /\ response.method = "emergency_pdf_conversion"
    /\ response.warnings = <<W_pdfplumber, W_emergencia>>

-----------------------------------------------------------------------------
(* Properties of procesar_archivo's cleanup *)

\* C38: when procesar_archivo has returned, the file at the file_path it
\* was given is still there; the files it removed are files made by the
\* converter during the call, at other paths.
C38_FilePathNeverDeleted ==
    pc = "processed" =>
        /\ TempPath \in tmp
        /\ \A p \in 1..nfiles : p \notin tmp => p # TempPath /\ p > 1

\* procesar_archivo read a document through a converted PDF and removed
\* that PDF, and the uploaded file is still there.
C38_ConvertedPdfRemovedUploadKept ==
    /\ pc = "processed"
    /\ extension = "docx"
    /\ resultado.k = "ret"
    /\ resultado.d.method = "pdf_conversion"
    /\ nfiles = 2
    /\ tmp = {TempPath}

-----------------------------------------------------------------------------
(* Properties of extract_clean_json's result *)

\* C39: whatever the text, the result of extract_clean_json begins with
\* "[" and ends with "]", also when the last "]" of the text stands before
\* its first "[", and extract_clean_json applied to that result returns it
\* unchanged.
C39_ResultIsBracketDelimited ==
    (j_pc = "out" /\ j_op = "extract") =>
        /\ j_texto # <<>>
        /\ Head(j_texto) = "["
        /\ j_texto[Len(j_texto)] = "]"
        /\ ExtractCleanJson(j_variant, j_texto) = j_texto

-----------------------------------------------------------------------------
(* Properties of shuffle_alternatives on labelled questions *)

Minusculas == {"a", "b", "c", "d", "e"}

\* Every option begins with a lowercase letter and ")", no two with the
\* same letter, and correcta is the letter of one of them
BienEtiquetada(q) ==
    /\ q.alternativas.t = "list"
    /\ q.alternativas.v # <<>>
    /\ \A i \in DOMAIN q.alternativas.v :
         /\ q.alternativas.v[i].t = "str"
         /\ Len(q.alternativas.v[i].v) >= 2
         /\ q.alternativas.v[i].v[1] \in Minusculas
         /\ q.alternativas.v[i].v[2] = ")"
    /\ \A i, j \in DOMAIN q.alternativas.v :
         q.alternativas.v[i].v[1] = q.alternativas.v[j].v[1] => i = j
    /\ \E i \in DOMAIN q.alternativas.v :
         q.correcta = VStr(<<q.alternativas.v[i].v[1]>>)

\* C40: given a question whose options each begin with a lowercase letter
\* of their own and ")" and whose correcta is one of those letters,
\* shuffle_alternatives returns the same options in some order, each with
\* its text as it was, and the correcta and texto it was given.
C40_ShuffleOnlyPermutes ==
    (p_q.k = "ret" /\ BienEtiquetada(p_qn.q)) =>
        /\ p_q.q.alternativas.t = "list"
        /\ Len(p_q.q.alternativas.v) = Len(p_qn.q.alternativas.v)
        /\ \E f \in Permutaciones(Len(p_qn.q.alternativas.v)) :
               \A i \in DOMAIN p_q.q.alternativas.v :
                   p_q.q.alternativas.v[i] = p_qn.q.alternativas.v[f[i]]
        /\ p_q.q.correcta = p_qn.q.correcta
        /\ p_q.q.texto = p_qn.q.texto

\* Four options labelled a) to d) came back in another order, the first
\* one no longer first, with correcta still b.
C40_ShuffledWithCorrectaKept ==
    /\ p_q.k = "ret"
    /\ BienEtiquetada(p_qn.q)
    /\ p_qn.q.alternativas = L4
    /\ p_q.q.alternativas.v[1] = Alt("d")
    /\ p_q.q.alternativas.v[4] = Alt("b")
    /\ p_q.q.correcta = VStr(<<"b">>)

=============================================================================
